---- MODULE Spec2Model ----
(***************************************************************************)
(* A model of the repository-analysis backend (server/routes/github.js):   *)
(* parseGitHubUrl, buildFileTreeWithCancellation, the activeAnalyses map   *)
(* (the Progress Store) and the /analyze, /validate, /analyze/cancel and   *)
(* /analyze/progress handlers.                                             *)
(*                                                                         *)
(* Strings whose characters the code inspects (URLs, entry names, paths)   *)
(* are sequences of one-character strings.                                 *)
(***************************************************************************)
EXTENDS Integers, Sequences, FiniteSets, TLC

(***************************************************************************)
(* Characters and string helpers                                           *)
(***************************************************************************)
Lower == {"a","b","c","d","e","f","g","h","i","j","k","l","m",
          "n","o","p","q","r","s","t","u","v","w","x","y","z"}
Upper == {"A","B","C","D","E","F","G","H","I","J","K","L","M",
          "N","O","P","Q","R","S","T","U","V","W","X","Y","Z"}
Digit == {"0","1","2","3","4","5","6","7","8","9"}
\* [a-zA-Z0-9]
AlphaNum == Lower \cup Upper \cup Digit
\* \s (the only whitespace the inputs use is the blank)
WhiteSpace == {" "}

EndsWith(s, suf) ==
  /\ Len(s) >= Len(suf)
  /\ SubSeq(s, Len(s) - Len(suf) + 1, Len(s)) = suf

StartsWith(s, pre) ==
  /\ Len(s) >= Len(pre)
  /\ SubSeq(s, 1, Len(pre)) = pre

\* some occurrence of sub in s starts at index i
OccursAt(s, sub, i) ==
  /\ i >= 1
  /\ i + Len(sub) - 1 <= Len(s)
  /\ SubSeq(s, i, i + Len(sub) - 1) = sub

Includes(s, sub) == \E i \in 1..(Len(s) + 1) : OccursAt(s, sub, i)

\* String.prototype.trim
RECURSIVE TrimLeft(_)
TrimLeft(s) ==
  IF s # <<>> /\ Head(s) \in WhiteSpace THEN TrimLeft(Tail(s)) ELSE s

RECURSIVE TrimRight(_)
TrimRight(s) ==
  IF s # <<>> /\ s[Len(s)] \in WhiteSpace
  THEN TrimRight(SubSeq(s, 1, Len(s) - 1)) ELSE s

Trim(s) == TrimRight(TrimLeft(s))

DotGit == <<".","g","i","t">>
GithubComSlash == <<"g","i","t","h","u","b",".","c","o","m","/">>
HttpsPrefix == <<"h","t","t","p","s",":","/","/">>

(***************************************************************************)
(* parseGitHubUrl                                                          *)
(***************************************************************************)
\* url.replace(/\/$/, ''): one trailing slash is removed
StripTrailingSlash(s) ==
  IF EndsWith(s, <<"/">>) THEN SubSeq(s, 1, Len(s) - 1) ELSE s

\* .replace(/\.git$/, '')
StripDotGitNoop(s) == s
StripDotGit(s) ==
  IF EndsWith(s, DotGit) THEN SubSeq(s, 1, Len(s) - Len(DotGit)) ELSE s

CleanUrl(url) == StripDotGit(StripTrailingSlash(Trim(url)))

\* the longest run of [^\/\s] characters of s that starts at index i
RECURSIVE SegmentAt(_, _)
SegmentAt(s, i) ==
  IF i > Len(s) \/ s[i] = "/" \/ s[i] \in WhiteSpace
  THEN <<>>
  ELSE <<s[i]>> \o SegmentAt(s, i + 1)

\* /github\.com\/([^\/\s]+)\/([^\/\s]+)/ matched with its first character at p.
\* A segment holds no slash, so the owner group is the whole run up to the
\* next slash, and the repo group, being greedy, is the whole run after it.
RegexMatchesAt(s, p) ==
  LET o == SegmentAt(s, p + Len(GithubComSlash))
      q == p + Len(GithubComSlash) + Len(o)
  IN  /\ OccursAt(s, GithubComSlash, p)
      /\ o # <<>>
      /\ q <= Len(s)
      /\ s[q] = "/"
      /\ SegmentAt(s, q + 1) # <<>>

\* the result parseGitHubUrl gives when it returns null
Null == [ok |-> FALSE, owner |-> <<>>, repo |-> <<>>]

\* /^[a-zA-Z0-9]([a-zA-Z0-9\-\.]*[a-zA-Z0-9])?$/
ValidOwnerPattern(o) ==
  /\ o # <<>>
  /\ o[1] \in AlphaNum
  /\ o[Len(o)] \in AlphaNum
  /\ \A i \in 1..Len(o) : o[i] \in AlphaNum \cup {"-", "."}

\* /^[a-zA-Z0-9]([a-zA-Z0-9\-\._]*[a-zA-Z0-9])?$/
ValidRepoPattern(r) ==
  /\ r # <<>>
  /\ r[1] \in AlphaNum
  /\ r[Len(r)] \in AlphaNum
  /\ \A i \in 1..Len(r) : r[i] \in AlphaNum \cup {"-", ".", "_"}

parseGitHubUrl(url) ==
  LET cleanUrl == CleanUrl(url)
      starts == {p \in 1..Len(cleanUrl) : RegexMatchesAt(cleanUrl, p)}
  IN  IF starts = {} THEN Null
      ELSE
        LET p == CHOOSE x \in starts : \A y \in starts : x <= y
            owner == SegmentAt(cleanUrl, p + Len(GithubComSlash))
            repo == SegmentAt(cleanUrl, p + Len(GithubComSlash) + Len(owner) + 1)
        IN  IF ValidOwnerPattern(owner) /\ ValidRepoPattern(repo)
            THEN [ok |-> TRUE, owner |-> owner, repo |-> repo]
            ELSE Null

(***************************************************************************)
(* The denylist of buildFileTreeWithCancellation and calculateTotalCounts  *)
(***************************************************************************)
\* the exact-name entries of skipPatterns
ExactSkipPatterns ==
  { <<"n","o","d","e","_","m","o","d","u","l","e","s">>,
    <<".","g","i","t">>,
    <<"d","i","s","t">>,
    <<"b","u","i","l","d">>,
    <<".","n","e","x","t">>,
    <<".","n","u","x","t">>,
    <<"c","o","v","e","r","a","g","e">>,
    <<".","n","y","c","_","o","u","t","p","u","t">>,
    <<".","c","a","c","h","e">>,
    <<".","p","a","r","c","e","l","-","c","a","c","h","e">> }

\* the entries of skipPatterns that hold a '*'
GlobSkipPatterns ==
  { <<"*",".","l","o","g">>,
    <<"*",".","l","o","c","k">>,
    <<"*",".","m","i","n",".","j","s">>,
    <<"*",".","m","i","n",".","c","s","s">>,
    <<"*",".","m","a","p">> }

\* pattern.replace(/\*/g, '.*')
RECURSIVE GlobToRegex(_)
GlobToRegex(pattern) ==
  IF pattern = <<>> THEN <<>>
  ELSE IF Head(pattern) = "*"
       THEN <<".", "*">> \o GlobToRegex(Tail(pattern))
       ELSE <<Head(pattern)>> \o GlobToRegex(Tail(pattern))

\* one regular-expression atom against one character: '.' is any character
AtomMatches(atom, ch) == atom = "." \/ atom = ch

\* the regular expression re (atoms, each possibly followed by '*') matches a
\* prefix of s
RECURSIVE MatchHere(_, _)
MatchHere(re, s) ==
  IF re = <<>> THEN TRUE
  ELSE IF Len(re) >= 2 /\ re[2] = "*"
       THEN \E k \in 0..Len(s) :
              /\ \A i \in 1..k : AtomMatches(re[1], s[i])
              /\ MatchHere(SubSeq(re, 3, Len(re)), SubSeq(s, k + 1, Len(s)))
       ELSE /\ s # <<>>
            /\ AtomMatches(re[1], s[1])
            /\ MatchHere(Tail(re), Tail(s))

\* new RegExp(re).test(s): the expression is not anchored
RegexTest(re, s) ==
  \E i \in 1..(Len(s) + 1) : MatchHere(re, SubSeq(s, i, Len(s)))

\* shouldSkip of buildFileTreeWithCancellation: the entry's name alone
CrawlerShouldSkipNothing(name) == FALSE
CrawlerShouldSkip(name) ==
  \/ name \in ExactSkipPatterns
  \/ \E g \in GlobSkipPatterns : RegexTest(GlobToRegex(g), name)

\* item.path.split('/').pop()
RECURSIVE LastSegment(_)
LastSegment(path) ==
  IF \A i \in 1..Len(path) : path[i] # "/" THEN path
  ELSE LastSegment(Tail(path))

\* item.path.split('/').length
SegmentCount(path) == 1 + Cardinality({i \in 1..Len(path) : path[i] = "/"})

\* shouldSkip of calculateTotalCounts and calculateRealRepositoryDepth: the
\* whole path and its last segment
CountsShouldSkipNothing(path) == FALSE
CountsShouldSkip(path) ==
  \/ path \in ExactSkipPatterns
  \/ LastSegment(path) \in ExactSkipPatterns
  \/ \E g \in GlobSkipPatterns :
       \/ RegexTest(GlobToRegex(g), path)
       \/ RegexTest(GlobToRegex(g), LastSegment(path))

(***************************************************************************)
(* GitHub as the handlers see it: repositories as flat lists of entries in *)
(* the order the API lists them.  An entry is its path segments and type.  *)
(***************************************************************************)
NameSrc == <<"s","r","c">>
NameLib == <<"l","i","b">>
NameDocs == <<"d","o","c","s">>
NameLog == <<"l","o","g">>
NameDist == <<"d","i","s","t">>
NameNodeModules == <<"n","o","d","e","_","m","o","d","u","l","e","s">>
NameAJs == <<"a",".","j","s">>
NameIJs == <<"i",".","j","s">>
NameXMap == <<"x",".","m","a","p">>

Dir(segs) == [segs |-> segs, type |-> "dir"]
File(segs) == [segs |-> segs, type |-> "file"]

\* a.js, src/, src/log
RepoPlain ==
  << File(<<NameAJs>>), Dir(<<NameSrc>>), File(<<NameSrc, NameLog>>) >>

\* a.js, node_modules/, node_modules/i.js, x.map
RepoDeps ==
  << File(<<NameAJs>>), Dir(<<NameNodeModules>>),
     File(<<NameNodeModules, NameIJs>>), File(<<NameXMap>>) >>

\* lib/, lib/dist/, lib/dist/i.js, lib/docs/, lib/docs/a.js, src/
RepoNested ==
  << Dir(<<NameLib>>), Dir(<<NameLib, NameDist>>),
     File(<<NameLib, NameDist, NameIJs>>), Dir(<<NameLib, NameDocs>>),
     File(<<NameLib, NameDocs, NameAJs>>), Dir(<<NameSrc>>) >>

\* lib/, lib/src/, lib/src/docs/, lib/src/docs/a.js
RepoDeep ==
  << Dir(<<NameLib>>), Dir(<<NameLib, NameSrc>>),
     Dir(<<NameLib, NameSrc, NameDocs>>),
     File(<<NameLib, NameSrc, NameDocs, NameAJs>>) >>

\* the repositories GitHub holds, by name
GitHubRepos == {"plain", "deps", "nested", "deep"}

GhRepo(name) ==
  CASE name = "plain" -> RepoPlain
    [] name = "deps" -> RepoDeps
    [] name = "nested" -> RepoNested
    [] OTHER -> RepoDeep

\* segments joined with '/'
RECURSIVE JoinPath(_)
JoinPath(segs) ==
  IF segs = <<>> THEN <<>>
  ELSE IF Len(segs) = 1 THEN segs[1]
  ELSE segs[1] \o <<"/">> \o JoinPath(Tail(segs))

ParentSegs(segs) == SubSeq(segs, 1, Len(segs) - 1)

\* one entry of GET /repos/{owner}/{repo}/contents/{path}
ContentsItem(e) ==
  [name |-> e.segs[Len(e.segs)], path |-> JoinPath(e.segs), type |-> e.type]

RECURSIVE MapContentsItems(_)
MapContentsItems(es) ==
  IF es = <<>> THEN <<>>
  ELSE <<ContentsItem(Head(es))>> \o MapContentsItems(Tail(es))

\* the 200 answer of GET /repos/{owner}/{repo}/contents/{path}
ContentsListing(ghRepo, path) ==
  MapContentsItems(
    SelectSeq(GhRepo(ghRepo), LAMBDA e : JoinPath(ParentSegs(e.segs)) = path))

\* one entry of GET /repos/{owner}/{repo}/git/trees/{branch}?recursive=1
TreeItem(e) ==
  [path |-> JoinPath(e.segs),
   type |-> IF e.type = "dir" THEN "tree" ELSE "blob"]

RECURSIVE MapTreeItems(_)
MapTreeItems(es) ==
  IF es = <<>> THEN <<>>
  ELSE <<TreeItem(Head(es))>> \o MapTreeItems(Tail(es))

\* the answer's tree property
GitTree(ghRepo) == MapTreeItems(GhRepo(ghRepo))

(***************************************************************************)
(* activeAnalyses: a Map, kept as the sequence of its entries in insertion *)
(* order.  An entry is [id, cancelled, progress, currentDepth]; cancelled  *)
(* is "true", "false" or "undefined" (the property is absent).             *)
(***************************************************************************)
MapHas(m, id) == \E i \in 1..Len(m) : m[i].id = id

MapIndex(m, id) == CHOOSE i \in 1..Len(m) : m[i].id = id

\* activeAnalyses.get(id) || {}
MapGetOrEmpty(m, id) ==
  IF MapHas(m, id) THEN m[MapIndex(m, id)]
  ELSE [id |-> id, cancelled |-> "undefined", progress |-> 0, currentDepth |-> 0]

\* Map.prototype.set: an existing key keeps its place, a new one goes last
MapSet(m, id, val) ==
  IF MapHas(m, id) THEN [m EXCEPT ![MapIndex(m, id)] = val]
  ELSE Append(m, val)

\* Map.prototype.delete
MapDelete(m, id) == SelectSeq(m, LAMBDA e : e.id # id)

MapIds(m) == {m[i].id : i \in 1..Len(m)}

NeverCancelled(m, id) == FALSE

\* activeAnalyses.get(analysisId)?.cancelled
IsCancelled(m, id) == MapHas(m, id) /\ m[MapIndex(m, id)].cancelled = "true"

Max(a, b) == IF a >= b THEN a ELSE b
Min(a, b) == IF a <= b THEN a ELSE b

\* Math.round(Math.min(10 + (depth / maxDepth) * 80, 90))
RoundedProgress(depth, maxDepth) ==
  IF depth >= maxDepth THEN 90
  ELSE 10 + ((160 * depth + maxDepth) \div (2 * maxDepth))

\* lines 119-137: the progress update of one crawler call
UpdateProgressNoClamp(m, id, depth, maxDepth) ==
  LET cur == MapGetOrEmpty(m, id)
  IN  MapSet(m, id, [cur EXCEPT !.progress = RoundedProgress(depth, maxDepth),
                                !.currentDepth = depth])
UpdateProgress(m, id, depth, maxDepth) ==
  LET cur == MapGetOrEmpty(m, id)
      newProgress == Max(cur.progress, RoundedProgress(depth, maxDepth))
  IN  MapSet(m, id, [cur EXCEPT !.progress = newProgress,
                                !.currentDepth = depth])

(***************************************************************************)
(* Tree nodes.  Every node is a record of the same shape: truncated is     *)
(* FALSE and error is "" where the JavaScript object has no such property, *)
(* and a file has no children.                                             *)
(***************************************************************************)
FolderNode(name, path, children, depth, truncated, error) ==
  [name |-> name, type |-> "folder", path |-> path, children |-> children,
   depth |-> depth, truncated |-> truncated, error |-> error]

FileNode(name, path, depth) ==
  [name |-> name, type |-> "file", path |-> path, children |-> <<>>,
   depth |-> depth, truncated |-> FALSE, error |-> ""]

NoTree ==
  [name |-> <<>>, type |-> "none", path |-> <<>>, children |-> <<>>,
   depth |-> 0, truncated |-> FALSE, error |-> ""]

(***************************************************************************)
(* Error messages are sequences of text pieces, cut so that the pieces the *)
(* handlers look for ('Repository', 'not found') are pieces of their own.  *)
(***************************************************************************)
MsgCancelled == <<"Analysis cancelled by user">>
MsgApiPrefix == <<"GitHub API error: ">>

\* new Error(`GitHub API error: ${error.message}`)
WrapApiErrorNot(msg) == msg
WrapApiError(msg) == MsgApiPrefix \o msg

RECURSIVE WrapTimes(_, _)
WrapTimes(msg, n) == IF n = 0 THEN msg ELSE WrapTimes(WrapApiError(msg), n - 1)

(***************************************************************************)
(* buildFileTreeWithCancellation.  One crawl is a stack of frames, one per *)
(* call that has issued its listing request: [path, name, depth, items,    *)
(* children], items being the entries not yet handled (the first of them   *)
(* is the directory being descended into while a deeper frame exists).     *)
(* The operators below run the code from one await to the next; c is       *)
(* [id, maxDepth, repo, ghRepo, stack, active, calls] (calls: the listing  *)
(* requests issued so far) and the result has kind "await" (a listing      *)
(* request is in flight), "done" (the root call returned tree) or "throw"  *)
(* (the root call rejected with error).                                    *)
(***************************************************************************)
\* line 140: if (depth >= maxDepth)
DepthLimitOffByOne(depth, maxDepth) == depth > maxDepth
DepthLimitReached(depth, maxDepth) == depth >= maxDepth

CrawlAwait(c) ==
  [kind |-> "await", stack |-> c.stack, active |-> c.active,
   calls |-> c.calls, tree |-> NoTree, error |-> <<>>]

CrawlDone(c, tree) ==
  [kind |-> "done", stack |-> <<>>, active |-> c.active,
   calls |-> c.calls, tree |-> tree, error |-> <<>>]

\* an error thrown in the call at the given depth passes the catch of that
\* call and of every caller (lines 263-265)
CrawlThrow(c, msg, depth) ==
  [kind |-> "throw", stack |-> <<>>, active |-> c.active,
   calls |-> c.calls, tree |-> NoTree, error |-> WrapTimes(msg, depth + 1)]

RECURSIVE CrawlEnter(_, _, _), CrawlLoop(_), CrawlReturn(_, _)

\* lines 112-162: a call up to its listing request
CrawlEnter(c, path, depth) ==
  IF IsCancelled(c.active, c.id)
  THEN CrawlThrow(c, MsgCancelled, depth)
  ELSE
    LET c1 == [c EXCEPT !.active = UpdateProgress(c.active, c.id, depth, c.maxDepth)]
    IN  IF DepthLimitReached(depth, c.maxDepth)
        THEN CrawlReturn(c1,
               FolderNode(IF path = <<>> THEN c.repo ELSE path, path, <<>>,
                          depth, TRUE, ""))
        ELSE CrawlAwait(
               [c1 EXCEPT
                  !.stack = Append(c1.stack,
                              [path |-> path, depth |-> depth,
                               items |-> <<>>, children |-> <<>>]),
                  !.calls = c1.calls \cup {[path |-> path, depth |-> depth]}])

\* lines 206-262: the loop over the items of the innermost call
CrawlLoop(c) ==
  LET top == c.stack[Len(c.stack)]
      rest == SubSeq(c.stack, 1, Len(c.stack) - 1)
  IN  IF top.items = <<>>
      THEN CrawlReturn([c EXCEPT !.stack = rest],
             FolderNode(IF top.path = <<>> THEN c.repo ELSE top.path, top.path,
                        top.children, top.depth, FALSE, ""))
      ELSE
        LET item == Head(top.items)
        IN  IF IsCancelled(c.active, c.id)
            THEN CrawlThrow(c, MsgCancelled, top.depth)
            ELSE IF CrawlerShouldSkip(item.name)
            THEN CrawlLoop([c EXCEPT !.stack[Len(c.stack)].items = Tail(top.items)])
            ELSE IF item.type = "dir"
            THEN CrawlEnter(c, item.path, top.depth + 1)
            ELSE CrawlLoop(
                   [c EXCEPT
                      !.stack[Len(c.stack)].items = Tail(top.items),
                      !.stack[Len(c.stack)].children =
                         Append(top.children,
                                FileNode(item.name, item.path, top.depth))])

\* a call returns subTree: to the handler, or to the loop of its caller
\* (lines 236-246)
CrawlReturn(c, subTree) ==
  IF c.stack = <<>>
  THEN CrawlDone(c, subTree)
  ELSE
    LET top == c.stack[Len(c.stack)]
        item == Head(top.items)
    IN  CrawlLoop(
          [c EXCEPT
             !.stack[Len(c.stack)].items = Tail(top.items),
             !.stack[Len(c.stack)].children =
                Append(top.children,
                       FolderNode(item.name, item.path, subTree.children,
                                  top.depth + 1, subTree.truncated, ""))])

\* lines 155-204: the answer to the listing request of the innermost call.
\* status is the HTTP status, or 0 when axios throws (5xx, timeout, no
\* connection).
CrawlListingAnswer(c, status) ==
  LET top == c.stack[Len(c.stack)]
      rest == SubSeq(c.stack, 1, Len(c.stack) - 1)
      name == IF top.path = <<>> THEN c.repo ELSE top.path
  IN  IF status = 0
      THEN CrawlThrow(c, <<"axios error">>, top.depth)
      ELSE IF status = 404
      THEN CrawlReturn([c EXCEPT !.stack = rest],
             FolderNode(name, top.path, <<>>, top.depth, FALSE,
                        "Directory not found or access denied"))
      ELSE IF status = 403
      THEN CrawlReturn([c EXCEPT !.stack = rest],
             FolderNode(name, top.path, <<>>, top.depth, FALSE,
                        "Rate limit exceeded or access denied"))
      ELSE IF status >= 400
      THEN CrawlThrow(c, MsgApiPrefix \o <<"status">>, top.depth)
      ELSE CrawlLoop(
             [c EXCEPT !.stack[Len(c.stack)].items =
                          ContentsListing(c.ghRepo, top.path)])

(***************************************************************************)
(* The counting helpers of POST /analyze                                   *)
(***************************************************************************)
\* calculateActualDepth(node, currentDepth), lines 383-392
RECURSIVE calculateActualDepth(_, _), MaxChildDepth(_, _, _)
calculateActualDepth(node, currentDepth) ==
  MaxChildDepth(node.children, currentDepth + 1, currentDepth)

MaxChildDepth(children, childDepth, acc) ==
  IF children = <<>> THEN acc
  ELSE MaxChildDepth(Tail(children), childDepth,
                     Max(acc, calculateActualDepth(Head(children), childDepth)))

\* countFromTree (lines 475-488) and countAnalyzed (lines 563-576): the files
\* and the folders of a tree, its root left out
RECURSIVE countAnalyzed(_, _), CountChildren(_)
countAnalyzed(node, isRoot) ==
  IF node.type = "file" THEN [files |-> 1, folders |-> 0]
  ELSE IF node.type = "folder"
  THEN LET sub == CountChildren(node.children)
       IN  [files |-> sub.files,
            folders |-> sub.folders + (IF isRoot THEN 0 ELSE 1)]
  ELSE [files |-> 0, folders |-> 0]

CountChildren(children) ==
  IF children = <<>> THEN [files |-> 0, folders |-> 0]
  ELSE LET h == countAnalyzed(Head(children), FALSE)
           t == CountChildren(Tail(children))
       IN  [files |-> h.files + t.files, folders |-> h.folders + t.folders]

\* lines 425-469: the loop of calculateTotalCounts over treeResponse.data.tree
RECURSIVE CountGitTree(_)
CountGitTree(tree) ==
  IF tree = <<>> THEN [files |-> 0, folders |-> 0]
  ELSE
    LET item == Head(tree)
        t == CountGitTree(Tail(tree))
    IN  IF CountsShouldSkip(item.path) THEN t
        ELSE IF item.type = "blob"
        THEN [t EXCEPT !.files = @ + 1]
        ELSE IF item.type = "tree" /\ item.path # <<>>
        THEN [t EXCEPT !.folders = @ + 1]
        ELSE t

\* calculateTotalCounts (lines 397-492): the flattened listing, or the
\* fallback to the crawled tree when a request of it fails
calculateTotalCounts(ghRepo, fileTree, listingOk) ==
  IF listingOk THEN CountGitTree(GitTree(ghRepo))
  ELSE countAnalyzed(fileTree, TRUE)

\* lines 526-551: the loop of calculateRealRepositoryDepth
RECURSIVE DepthOfGitTree(_)
DepthOfGitTree(tree) ==
  IF tree = <<>> THEN 0
  ELSE
    LET item == Head(tree)
        t == DepthOfGitTree(Tail(tree))
    IN  IF CountsShouldSkip(item.path) THEN t
        ELSE IF item.type = "tree" /\ item.path # <<>>
        THEN Max(t, SegmentCount(item.path) + 1)
        ELSE t

\* calculateRealRepositoryDepth (lines 498-557)
calculateRealRepositoryDepth(ghRepo, actualDepthReached, listingOk) ==
  IF listingOk THEN DepthOfGitTree(GitTree(ghRepo)) ELSE actualDepthReached

(***************************************************************************)
(* Errors and responses                                                    *)
(***************************************************************************)
\* new Error(message): no response and no code property
NewError(msg) ==
  [message |-> msg, responseStatus |-> 0, rateLimit |-> FALSE, code |-> ""]

NoError == NewError(<<>>)

MsgFailedValidate == <<"Failed to validate repository: ">>

\* validateRepositoryExists (lines 293-350) on the answer of the metadata
\* lookup: "ok", "404", "403" (a private repository), "403rate" (403 with
\* a rate-limit message in its body; the code does not read the body),
\* "4xx" (another status below 500), "empty" (size 0), "nobranch" (no
\* default_branch), "throw" (axios throws: a 5xx status, a timeout, no
\* connection).  Every error thrown inside its try block passes its own
\* catch, which wraps any error that has no response status 404 or 403.
MetaAnswers ==
  {"ok", "404", "403", "403rate", "4xx", "empty", "nobranch", "throw"}

ValidationMessage(answer) ==
  CASE answer = "404" ->
         <<"Repository", " 'owner/repo' ", "not found",
           ". Please check the repository name and owner.">>
    [] answer \in {"403", "403rate"} ->
         <<"Access denied to repository 'owner/repo'. The repository may be private or you may not have permission to access it.">>
    [] answer = "4xx" -> MsgApiPrefix \o <<"status">>
    [] answer = "empty" ->
         <<"Repository", " 'owner/repo' is empty and has no content to analyze.">>
    [] answer = "nobranch" ->
         <<"Repository", " 'owner/repo' has no default branch and cannot be analyzed.">>
    [] OTHER -> <<"axios error">>

ValidateIgnoresEmpty(answer) ==
  IF answer \in {"ok", "empty"} THEN NoError
  ELSE NewError(MsgFailedValidate \o ValidationMessage(answer))

validateRepositoryExists(answer) ==
  IF answer = "ok" THEN NoError
  ELSE NewError(MsgFailedValidate \o ValidationMessage(answer))

Response(status, message, cancelled) ==
  [status |-> status, message |-> message, cancelled |-> cancelled]

NoResponse == Response(0, <<>>, FALSE)

NetworkCodes == {"ECONNABORTED", "ENOTFOUND", "ECONNREFUSED"}

\* lines 711-752: the response the catch block of POST /analyze sends
AnalyzeErrorResponse(error) ==
  IF error.message = MsgCancelled
  THEN Response(499, MsgCancelled, TRUE)
  ELSE IF Includes(error.message, <<"not found">>)
          \/ Includes(error.message, <<"Repository">>)
  THEN Response(404, error.message, FALSE)
  ELSE IF error.responseStatus = 403 /\ error.rateLimit
  THEN Response(429, <<"GitHub API rate limit exceeded. Please try again later.">>, FALSE)
  ELSE IF error.code \in NetworkCodes
  THEN Response(503, <<"Network error. Please check your internet connection and try again.">>, FALSE)
  ELSE Response(500, <<"Failed to analyze repository">>, FALSE)

\* lines 855-888: the response the catch block of POST /validate sends
ValidateErrorResponse(error) ==
  IF Includes(error.message, <<"not found">>)
     \/ Includes(error.message, <<"Repository">>)
  THEN Response(404, error.message, FALSE)
  ELSE IF error.responseStatus = 403 /\ error.rateLimit
  THEN Response(429, <<"GitHub API rate limit exceeded. Please try again later.">>, FALSE)
  ELSE IF error.code \in NetworkCodes
  THEN Response(503, <<"Network error. Please check your internet connection and try again.">>, FALSE)
  ELSE Response(500, <<"Failed to validate repository">>, FALSE)

\* lines 703-709: the clean-up loop of the catch block deletes the first
\* entry whose id starts with the user's id
FirstWithPrefix(m, userId) ==
  {i \in 1..Len(m) :
     /\ StartsWith(m[i].id, userId)
     /\ \A j \in 1..(i - 1) : ~StartsWith(m[j].id, userId)}

CatchCleanup(m, userId) ==
  IF FirstWithPrefix(m, userId) = {} THEN m
  ELSE LET i == CHOOSE x \in FirstWithPrefix(m, userId) : TRUE
       IN  SubSeq(m, 1, i - 1) \o SubSeq(m, i + 1, Len(m))

\* decimal digits of a natural number
DigitChars == <<"0","1","2","3","4","5","6","7","8","9">>

RECURSIVE DigitsOf(_)
DigitsOf(n) ==
  IF n < 10 THEN <<DigitChars[n + 1]>>
  ELSE DigitsOf(n \div 10) \o <<DigitChars[(n % 10) + 1]>>

\* line 357: `${req.user.id}-${Date.now()}`
NewAnalysisId(userId, now) == userId \o <<"-">> \o DigitsOf(now)

\* req.body.maxDepth: a number (or a string that parseInt reads as that
\* number), a value parseInt cannot read, or no value at all
Number(n) == [kind |-> "number", n |-> n]
NonNumeric == [kind |-> "text", n |-> 0]
Absent == [kind |-> "absent", n |-> 0]

NaN == [nan |-> TRUE, n |-> 0]

parseInt(v) == IF v.kind = "number" THEN [nan |-> FALSE, n |-> v.n] ELSE NaN

\* x || 15: NaN and 0 are falsy
OrFifteen(x) == IF x.nan \/ x.n = 0 THEN 15 ELSE x.n

\* line 274: the default of the destructuring applies to an absent value
MaxDepthOfBody(v) == IF v.kind = "absent" THEN Number(15) ELSE v

ClampDepthNoFloor(maxDepth) ==
  Min(OrFifteen(parseInt(MaxDepthOfBody(maxDepth))), 20)

\* line 281: Math.min(Math.max(parseInt(maxDepth) || 15, 1), 20)
ClampDepth(maxDepth) ==
  Min(Max(OrFifteen(parseInt(MaxDepthOfBody(maxDepth))), 1), 20)

(***************************************************************************)
(* Inputs                                                                  *)
(***************************************************************************)
\* req.user.id of the two users
UserIds == { <<"1">>, <<"1","2">> }

Reqs == {1, 2}

\* the values Date.now() takes are 0..MaxClock
MaxClock == 1

\* the values a client sends as maxDepth: the integers -1..MaxDepthInput, 20,
\* 21 and a huge one, a value that is no number, and none
MaxDepthInput == 4
DepthInputs ==
  {Number(i) : i \in ((0 - 1)..MaxDepthInput) \cup {20, 21, 1000000}}
    \cup {NonNumeric, Absent}

OwnerInputs ==
  { <<"o">>, <<"a","-","b">>, <<"O","9">>, <<>>, <<"a"," ","b">>,
    <<"a","?","b">>, <<"-","a">> }

RepoInputs ==
  { <<"r">>, <<"r",".","x">>, <<"r","_","1">>, <<"R","-","2">>, <<>>,
    <<"r"," ","p">>, <<"r","?","q">>, <<"r","-">>, <<"x">> \o DotGit }

UrlSuffixes == { <<>>, <<"/">>, DotGit, DotGit \o <<"/">> }

\* https://github.com/{owner}/{repo}{suffix}
UrlOf(owner, repo, suffix) ==
  HttpsPrefix \o GithubComSlash \o owner \o <<"/">> \o repo \o suffix

\* https://github.com/{owner}: no repo segment
UrlWithoutRepo(owner) == HttpsPrefix \o GithubComSlash \o owner

GoodUrl == UrlOf(<<"o">>, <<"r">>, <<>>)

UrlInputs ==
  {UrlOf(o, r, x) : o \in OwnerInputs, r \in RepoInputs, x \in UrlSuffixes}
    \cup {UrlWithoutRepo(o) : o \in OwnerInputs}
    \cup {UrlWithoutRepo(o) : o \in OwnerInputs}

(***************************************************************************)
(* State                                                                   *)
(***************************************************************************)
VARIABLES
  activeAnalyses,     \* the Progress Store (line 269)
  clock,              \* Date.now()
  repositories,       \* the records Repository.create has stored
  repoIdCounter,      \* the id the next record gets
  lastDelete,         \* the last DELETE /repositories/:id and its response
  req,                \* per request: its inputs, its position, its locals
  lastProgress,       \* history: the progress last held for each analysisId
  everCancelled,      \* history: the ids that have held cancelled = true
  cancelledMidCrawl,  \* history: requests cancelled by their user mid-crawl
  pollSeen,           \* the last answer of GET /analyze/progress per user
  github,             \* the answers GitHub and the database may give
  ai,                 \* the POST /analyze-code request: inputs, position, locals
  retry,              \* one call of retryWithBackoff: inputs, position, history
  users,              \* the users collection
  statistics,         \* the statistics collection
  reg,                \* per POST /register request: inputs, position, response
  initStats,          \* the initializeStats script: position, locals
  statsReq,           \* one GET /api/stats request: position, response
  parseIn,            \* the owner and repo a URL is built from
  parseOut            \* the results of parseGitHubUrl on its four forms

\* the variables of retryWithBackoff, of the accounts and of the statistics
otherVars == <<retry, users, statistics, reg, initStats, statsReq>>

vars ==
  << activeAnalyses, clock, repositories, repoIdCounter, lastDelete, req,
     lastProgress, everCancelled, cancelledMidCrawl, pollSeen, github, ai,
     retry, users, statistics, reg, initStats, statsReq, parseIn, parseOut >>

NewRequest(kind, user, repoUrl, maxDepth, ghRepo) ==
  [pc |-> "start", kind |-> kind, user |-> user, repoUrl |-> repoUrl,
   maxDepth |-> maxDepth, ghRepo |-> ghRepo,
   depth |-> 0, parsed |-> Null, metaAnswer |-> "none", analysisId |-> <<>>,
   stack |-> <<>>, calls |-> {}, answers |-> {}, upstream |-> 0,
   fileTree |-> NoTree, actualDepthReached |-> 0,
   totalCounts |-> [files |-> 0, folders |-> 0], totalsSource |-> "none",
   realRepositoryDepth |-> 0, depthSource |-> "none",
   analyzedCounts |-> [files |-> 0, folders |-> 0],
   error |-> NoError, response |-> NoResponse]

\* a request that is never sent
NoRequest ==
  [NewRequest("analyze", <<"1">>, GoodUrl, Number(1), "plain") EXCEPT !.pc = "off"]

NoDelete ==
  [user |-> <<>>, id |-> 0, found |-> "none", response |-> NoResponse]

NoPoll == [active |-> FALSE, progress |-> 0, currentDepth |-> 0, cancelled |-> FALSE]

InitStores ==
  /\ activeAnalyses = <<>>
  /\ clock = 0
  /\ repositories = <<>>
  /\ repoIdCounter = 1
  /\ lastDelete = NoDelete
  /\ lastProgress = <<>>
  /\ everCancelled = {}
  /\ cancelledMidCrawl = {}
  /\ pollSeen = [u \in UserIds |-> NoPoll]

InitNoParse ==
  /\ parseIn = [owner |-> <<>>, repo |-> <<>>]
  /\ parseOut = <<>>

\* a field of an analysis object: the type of its value and where the value
\* comes from (the LLM's JSON, a default of validateAnalysisResponse, the
\* fallback of the handler)
Val(type, from) == [type |-> type, from |-> from]

Missing == Val("absent", "none")

FieldNames ==
  {"summary", "keyFunctions", "cleanCode", "issues", "improvements", "libraries"}

\* no POST /analyze-code request is sent
NoAnalysis == [f \in FieldNames |-> Missing]

NoAi ==
  [pc |-> "off", fileContent |-> FALSE, fileName |-> "a.js", keyConfigured |-> FALSE,
   attempts |-> 0, calls |-> 0, threw |-> FALSE, rawAnalysis |-> <<>>,
   parseFailed |-> FALSE,
   response |-> [status |-> 0, message |-> "", analysis |-> NoAnalysis]]

InitNoAi == ai = NoAi

\* retryWithBackoff is not called
NoRetry ==
  [pc |-> "off", maxRetries |-> 0, baseDelay |-> 0, attempt |-> 0,
   outcomes |-> <<>>, delays |-> <<>>, result |-> "none"]

InitNoRetry == retry = NoRetry

\* no register request is sent and the script is not run; the collections
\* are empty
NoRegister ==
  [pc |-> "off", email |-> "", username |-> <<>>, status |-> 0, message |-> ""]

NoInitStats == [pc |-> "off", totalUsers |-> 0, totalRepositories |-> 0]

NoStatsRequest == [pc |-> "off", status |-> 0, totalUsers |-> 0, totalAnalyses |-> 0]

InitNoAccounts ==
  /\ users = <<>>
  /\ statistics = <<>>
  /\ reg = [r \in Reqs |-> NoRegister]
  /\ initStats = NoInitStats
  /\ statsReq = NoStatsRequest

(***************************************************************************)
(* The statistics collection (Statistics.js lines 3-104) is the sequence   *)
(* of its documents in insertion order; findOne and an update with the     *)
(* filter {} take the first.  A field that $inc has not yet created reads  *)
(* as 0 here: a document made by an upsert has its other field at least 1, *)
(* so the test of initializeStats.js line 23 is false for it either way.   *)
(***************************************************************************)
StatsDoc(totalUsers, totalAnalyses) ==
  [totalUsers |-> totalUsers, totalAnalyses |-> totalAnalyses]

\* findOneAndUpdate({}, {$inc: {totalUsers: 1}}, {upsert: true})
incrementUsers(stats) ==
  IF stats = <<>> THEN <<StatsDoc(1, 0)>>
  ELSE [stats EXCEPT ![1].totalUsers = @ + 1]

\* findOneAndUpdate({}, {$inc: {totalAnalyses: 1}}, {upsert: true})
incrementAnalyses(stats) ==
  IF stats = <<>> THEN <<StatsDoc(0, 1)>>
  ELSE [stats EXCEPT ![1].totalAnalyses = @ + 1]

\* the store and what the history variables record of it
StoreBecomes(m) ==
  /\ activeAnalyses' = m
  /\ lastProgress' =
       [id \in (DOMAIN lastProgress) \cup MapIds(m) |->
          IF MapHas(m, id) THEN m[MapIndex(m, id)].progress
          ELSE lastProgress[id]]
  /\ everCancelled' = everCancelled \cup {id \in MapIds(m) : IsCancelled(m, id)}

\* a step of request r: its record becomes rq, the store m, the records repos
Commit(r, rq, m, repos) ==
  /\ req' = [req EXCEPT ![r] = rq]
  /\ StoreBecomes(m)
  /\ repositories' = repos
  /\ UNCHANGED <<clock, repoIdCounter, lastDelete, cancelledMidCrawl, pollSeen,
                 github, ai, otherVars, parseIn, parseOut>>

\* lines 702-753: the catch block of POST /analyze
AnalyzeCatch(r, rq, m, error) ==
  Commit(r,
         [rq EXCEPT !.pc = "done", !.stack = <<>>, !.error = error,
                    !.response = AnalyzeErrorResponse(error)],
         CatchCleanup(m, rq.user),
         repositories)

(***************************************************************************)
(* POST /analyze (lines 272-754), one action per stretch between awaits    *)
(***************************************************************************)
CrawlContext(rq, m) ==
  [id |-> rq.analysisId, maxDepth |-> rq.depth, repo |-> rq.parsed.repo,
   ghRepo |-> rq.ghRepo, stack |-> rq.stack, active |-> m, calls |-> rq.calls]

\* lines 361-394: what follows a stretch of the crawl
AfterCrawl(r, rq, res) ==
  IF res.kind = "await"
  THEN Commit(r,
              [rq EXCEPT !.pc = "listing", !.stack = res.stack,
                         !.calls = res.calls, !.upstream = @ + 1],
              res.active, repositories)
  ELSE IF res.kind = "throw"
  THEN AnalyzeCatch(r, [rq EXCEPT !.calls = res.calls], res.active,
                    NewError(res.error))
  ELSE
    LET cur == MapGetOrEmpty(res.active, rq.analysisId)
        m1 == MapSet(res.active, rq.analysisId,
                     [cur EXCEPT !.progress = 100, !.currentDepth = rq.depth])
    IN  IF IsCancelled(m1, rq.analysisId)
        THEN Commit(r,
                    [rq EXCEPT !.pc = "done", !.stack = <<>>,
                               !.calls = res.calls, !.fileTree = res.tree,
                               !.response = Response(499, MsgCancelled, FALSE)],
                    MapDelete(m1, rq.analysisId), repositories)
        ELSE Commit(r,
                    [rq EXCEPT !.pc = "totalCounts", !.stack = <<>>,
                               !.calls = res.calls, !.fileTree = res.tree,
                               !.actualDepthReached =
                                  Min(calculateActualDepth(res.tree, 1), rq.depth),
                               !.upstream = @ + 1],
                    m1, repositories)

\* lines 273-304: the body is read, the URL parsed, the metadata lookup sent
AnalyzeStart(r) ==
  /\ req[r].pc = "start"
  /\ req[r].kind = "analyze"
  /\ LET rq == req[r]
         parsed == parseGitHubUrl(rq.repoUrl)
     IN  IF rq.repoUrl = <<>>
         THEN Commit(r,
                     [rq EXCEPT !.pc = "done",
                                !.response = Response(400, <<"Repository URL is required">>, FALSE)],
                     activeAnalyses, repositories)
         ELSE IF ~parsed.ok
         THEN Commit(r,
                     [rq EXCEPT !.pc = "done", !.depth = ClampDepth(rq.maxDepth),
                                !.response = Response(400, <<"Invalid GitHub URL">>, FALSE)],
                     activeAnalyses, repositories)
         ELSE Commit(r,
                     [rq EXCEPT !.pc = "validating", !.depth = ClampDepth(rq.maxDepth),
                                !.parsed = parsed, !.upstream = @ + 1],
                     activeAnalyses, repositories)

\* lines 305-361: the metadata lookup is answered; on success the entry is
\* created and the crawl runs to its first listing request
AnalyzeValidated(r) ==
  /\ req[r].pc = "validating"
  /\ req[r].kind = "analyze"
  /\ \E answer \in github.meta :
       LET rq == [req[r] EXCEPT !.metaAnswer = answer]
           error == validateRepositoryExists(answer)
           id == NewAnalysisId(rq.user, clock)
           rq1 == [rq EXCEPT !.analysisId = id]
           m1 == MapSet(activeAnalyses, id,
                        [id |-> id, cancelled |-> "false", progress |-> 0,
                         currentDepth |-> 0])
       IN  IF error # NoError
           THEN AnalyzeCatch(r, rq, activeAnalyses, error)
           ELSE AfterCrawl(r, rq1, CrawlEnter(CrawlContext(rq1, m1), <<>>, 0))

\* the statuses a listing request is answered with; 0: axios throws
ListingStatuses == {200, 404, 403, 422, 0}

\* github when every answer is possible: meta, the answers of the metadata
\* lookup; listing, those of a listing request; flat, whether the requests
\* of calculateTotalCounts and calculateRealRepositoryDepth succeed; db,
\* whether a database call succeeds
AnyAnswer ==
  [meta |-> MetaAnswers, listing |-> ListingStatuses,
   flat |-> BOOLEAN, db |-> BOOLEAN]

\* lines 155-266: a listing request is answered and the crawl runs to its
\* next listing request, or to its end
AnalyzeListing(r) ==
  /\ req[r].pc = "listing"
  /\ \E status \in github.listing :
       LET top == req[r].stack[Len(req[r].stack)]
           rq == [req[r] EXCEPT
                    !.answers = @ \cup {[path |-> top.path, depth |-> top.depth,
                                         status |-> status]}]
       IN  AfterCrawl(r, rq,
                      CrawlListingAnswer(CrawlContext(rq, activeAnalyses), status))

\* lines 397-494: calculateTotalCounts ends, by its listing or by its fallback
AnalyzeTotalCounts(r) ==
  /\ req[r].pc = "totalCounts"
  /\ \E listingOk \in github.flat :
       Commit(r,
              [req[r] EXCEPT
                 !.pc = "realDepth",
                 !.totalCounts =
                    calculateTotalCounts(req[r].ghRepo, req[r].fileTree, listingOk),
                 !.totalsSource = IF listingOk THEN "listing" ELSE "fallback",
                 !.upstream = @ + 1],
              activeAnalyses, repositories)

\* lines 498-611: calculateRealRepositoryDepth ends; the analyzed counts are
\* taken from the tree and capped by the totals; the README is asked for
AnalyzeRealDepth(r) ==
  /\ req[r].pc = "realDepth"
  /\ \E listingOk \in github.flat :
       LET rq == req[r]
           counted == countAnalyzed(rq.fileTree, TRUE)
       IN  Commit(r,
                  [rq EXCEPT
                     !.pc = "readme",
                     !.realRepositoryDepth =
                        calculateRealRepositoryDepth(rq.ghRepo,
                                                     rq.actualDepthReached, listingOk),
                     !.depthSource = IF listingOk THEN "listing" ELSE "fallback",
                     !.analyzedCounts =
                        [files |-> Min(counted.files, rq.totalCounts.files),
                         folders |-> Min(counted.folders, rq.totalCounts.folders)],
                     !.upstream = @ + 1],
                  activeAnalyses, repositories)

\* lines 611-626: the README request ends (its outcome is not kept here) and
\* package.json is asked for
AnalyzeReadme(r) ==
  /\ req[r].pc = "readme"
  /\ Commit(r, [req[r] EXCEPT !.pc = "packageJson", !.upstream = @ + 1],
            activeAnalyses, repositories)

\* lines 626-666: the package.json request ends and Repository.create is called
AnalyzePackageJson(r) ==
  /\ req[r].pc = "packageJson"
  /\ Commit(r, [req[r] EXCEPT !.pc = "create"], activeAnalyses, repositories)

\* the record Repository.create stores (part_008 lines 5-41); request is the
\* analysis attempt that wrote it
RepositoryRecord(r, rq) ==
  [request |-> r, user_id |-> rq.user, repo_url |-> rq.repoUrl,
   repo_data |-> rq.fileTree,
   repo_stats |->
     [analyzedFiles |-> rq.analyzedCounts.files,
      analyzedFolders |-> rq.analyzedCounts.folders,
      totalFiles |-> rq.totalCounts.files,
      totalFolders |-> rq.totalCounts.folders,
      analyzedDepth |-> Min(rq.actualDepthReached, rq.realRepositoryDepth),
      totalDepth |-> rq.realRepositoryDepth]]

\* part_008 lines 9-19: the record is stored under the next id
StoredRecord(id, record) == [id |-> id] @@ record

\* line 666: Repository.create ends
AnalyzeCreate(r) ==
  /\ req[r].pc = "create"
  /\ \E ok \in github.db :
       IF ok
       THEN /\ req' = [req EXCEPT ![r].pc = "incrementAnalyses"]
            /\ repositories' =
                 Append(repositories,
                        StoredRecord(repoIdCounter, RepositoryRecord(r, req[r])))
            /\ repoIdCounter' = repoIdCounter + 1
            /\ UNCHANGED <<activeAnalyses, clock, lastDelete, lastProgress,
                           everCancelled, cancelledMidCrawl, pollSeen, github, ai, otherVars,
                           parseIn, parseOut>>
       ELSE AnalyzeCatch(r, req[r], activeAnalyses, NewError(<<"database error">>))

\* lines 669-701: Statistics.incrementAnalyses ends; the entry is deleted and
\* the success response sent
AnalyzeIncrement(r) ==
  /\ req[r].pc = "incrementAnalyses"
  /\ \E ok \in github.db :
       IF ok
       THEN /\ req' = [req EXCEPT ![r] =
                          [req[r] EXCEPT
                             !.pc = "done",
                             !.response = Response(200, <<"Repository analyzed successfully">>, FALSE)]]
            /\ StoreBecomes(MapDelete(activeAnalyses, req[r].analysisId))
            /\ statistics' = incrementAnalyses(statistics)
            /\ UNCHANGED <<repositories, clock, repoIdCounter, lastDelete,
                           cancelledMidCrawl, pollSeen, github, ai, retry, users,
                           reg, initStats, statsReq, parseIn, parseOut>>
       ELSE AnalyzeCatch(r, req[r], activeAnalyses, NewError(<<"database error">>))

(***************************************************************************)
(* POST /validate (lines 757-890)                                          *)
(***************************************************************************)
ValidateStart(r) ==
  /\ req[r].pc = "start"
  /\ req[r].kind = "validate"
  /\ LET rq == req[r]
         parsed == parseGitHubUrl(rq.repoUrl)
     IN  IF rq.repoUrl = <<>>
         THEN Commit(r,
                     [rq EXCEPT !.pc = "done",
                                !.response = Response(400, <<"Repository URL is required">>, FALSE)],
                     activeAnalyses, repositories)
         ELSE IF ~parsed.ok
         THEN Commit(r,
                     [rq EXCEPT !.pc = "done",
                                !.response = Response(400, <<"Invalid GitHub URL">>, FALSE)],
                     activeAnalyses, repositories)
         ELSE Commit(r,
                     [rq EXCEPT !.pc = "validating", !.parsed = parsed,
                                !.upstream = @ + 1],
                     activeAnalyses, repositories)

ValidateAnswered(r) ==
  /\ req[r].pc = "validating"
  /\ req[r].kind = "validate"
  /\ \E answer \in github.meta :
       LET error == validateRepositoryExists(answer)
       IN  IF error = NoError
           THEN Commit(r,
                       [req[r] EXCEPT !.pc = "done", !.metaAnswer = answer,
                                      !.response = Response(200, <<"exists">>, FALSE)],
                       activeAnalyses, repositories)
           ELSE Commit(r,
                       [req[r] EXCEPT !.pc = "done", !.metaAnswer = answer,
                                      !.error = error,
                                      !.response = ValidateErrorResponse(error)],
                       activeAnalyses, repositories)

(***************************************************************************)
(* POST /analyze/cancel, GET /analyze/progress, the clock                  *)
(***************************************************************************)
\* lines 893-914: every entry whose id starts with the user's id is flagged
CancelEntries(m, userId) ==
  [i \in 1..Len(m) |->
     IF StartsWith(m[i].id, userId) THEN [m[i] EXCEPT !.cancelled = "true"]
     ELSE m[i]]

Cancel(u) ==
  /\ StoreBecomes(CancelEntries(activeAnalyses, u))
  /\ cancelledMidCrawl' =
       cancelledMidCrawl \cup {r \in Reqs : req[r].pc = "listing" /\ req[r].user = u}
  /\ UNCHANGED <<clock, repositories, repoIdCounter, lastDelete, req, pollSeen,
                 github, ai, otherVars, parseIn, parseOut>>

\* lines 917-937: the first entry whose id starts with the user's id
ProgressAnswer(m, userId) ==
  IF FirstWithPrefix(m, userId) = {} THEN NoPoll
  ELSE LET e == m[CHOOSE i \in FirstWithPrefix(m, userId) : TRUE]
       IN  [active |-> TRUE, progress |-> e.progress,
            currentDepth |-> e.currentDepth, cancelled |-> e.cancelled = "true"]

Poll(u) ==
  /\ pollSeen' = [pollSeen EXCEPT ![u] = ProgressAnswer(activeAnalyses, u)]
  /\ UNCHANGED <<activeAnalyses, clock, repositories, repoIdCounter, lastDelete,
                 req, lastProgress,
                 everCancelled, cancelledMidCrawl, github, ai, otherVars, parseIn, parseOut>>

Tick ==
  /\ clock < MaxClock
  /\ clock' = clock + 1
  /\ UNCHANGED <<activeAnalyses, repositories, repoIdCounter, lastDelete, req,
                 lastProgress, everCancelled,
                 cancelledMidCrawl, pollSeen, github, ai, otherVars, parseIn, parseOut>>

(***************************************************************************)
(* DELETE /repositories/:id (part_007 lines 971-985) and                   *)
(* Repository.deleteById (part_008 lines 73-109)                           *)
(***************************************************************************)
\* the positions of the records with this id
WithId(repos, repoId) == {i \in 1..Len(repos) : repos[i].id = repoId}

RemoveAt(repos, is) ==
  LET keep == {i \in 1..Len(repos) : i \notin is}
      F[n \in 0..Len(repos)] ==
        IF n = 0 THEN <<>>
        ELSE IF n \in keep THEN Append(F[n - 1], repos[n]) ELSE F[n - 1]
  IN  F[Len(repos)]

deleteByIdOfAnyOwner(repos, userId, repoId) ==
  [deleted |-> WithId(repos, repoId) # {},
   repos |-> RemoveAt(repos, WithId(repos, repoId))]

\* the record goes only when its id and its user_id both match
deleteById(repos, userId, repoId) ==
  LET hit == {i \in WithId(repos, repoId) : repos[i].user_id = userId}
  IN  [deleted |-> hit # {}, repos |-> RemoveAt(repos, hit)]

\* whose record the id names, as seen by the user
FoundBy(repos, userId, repoId) ==
  IF WithId(repos, repoId) = {} THEN "missing"
  ELSE IF \E i \in WithId(repos, repoId) : repos[i].user_id = userId THEN "own"
  ELSE "foreign"

DeleteResponse(deleted) ==
  IF deleted THEN Response(200, <<"Repository deleted successfully">>, FALSE)
  ELSE Response(404, <<"Repository not found">>, FALSE)

Delete(u, id) ==
  /\ \E ok \in github.db :
       LET result == deleteById(repositories, u, id)
       IN  /\ repositories' = IF ok THEN result.repos ELSE repositories
           /\ lastDelete' =
                [user |-> u, id |-> id,
                 found |-> FoundBy(repositories, u, id),
                 response |->
                   IF ok THEN DeleteResponse(result.deleted)
                   ELSE Response(500, <<"Failed to delete repository">>, FALSE)]
  /\ UNCHANGED <<activeAnalyses, clock, repoIdCounter, req, lastProgress,
                 everCancelled, cancelledMidCrawl, pollSeen, github, ai, otherVars, parseIn,
                 parseOut>>

(***************************************************************************)
(* POST /analyze-code (ai.js lines 77-258).  A text of the LLM is a         *)
(* sequence of pieces: a code fence, white space, a brace, prose without   *)
(* braces, or a member of a JSON object written name=type.                 *)
(***************************************************************************)
\* the code fence with and without the language tag (three backquotes)
FenceJson == "<fence>json"
Fence == "<fence>"

FieldTable ==
  [t \in {"summary=s", "summary=short", "summary=n", "keyFunctions=l",
          "keyFunctions=s", "cleanCode=b", "cleanCode=s", "issues=l",
          "improvements=l", "libraries=l", "libraries=n"} |->
     CASE t = "summary=s" -> [name |-> "summary", type |-> "string"]
       [] t = "summary=short" -> [name |-> "summary", type |-> "shortString"]
       [] t = "summary=n" -> [name |-> "summary", type |-> "number"]
       [] t = "keyFunctions=l" -> [name |-> "keyFunctions", type |-> "list"]
       [] t = "keyFunctions=s" -> [name |-> "keyFunctions", type |-> "string"]
       [] t = "cleanCode=b" -> [name |-> "cleanCode", type |-> "boolean"]
       [] t = "cleanCode=s" -> [name |-> "cleanCode", type |-> "string"]
       [] t = "issues=l" -> [name |-> "issues", type |-> "list"]
       [] t = "improvements=l" -> [name |-> "improvements", type |-> "list"]
       [] t = "libraries=l" -> [name |-> "libraries", type |-> "list"]
       [] OTHER -> [name |-> "libraries", type |-> "number"]]

\* ai.js lines 179-193: the text handed to JSON.parse
CleanedResponse(rawAnalysis) ==
  LET Opens(s) == {i \in 1..Len(s) : s[i] = "{"}
      Closes(s) == {i \in 1..Len(s) : s[i] = "}"}
      Least(S) == CHOOSE x \in S : \A y \in S : x <= y
      Greatest(S) == CHOOSE x \in S : \A y \in S : x >= y
      \* replace(/^```json\s*/i, '')
      StripFenceJsonStart(s) ==
        IF s # <<>> /\ Head(s) = FenceJson THEN TrimLeft(Tail(s)) ELSE s
      \* replace(/^```\s*/i, '')
      StripFenceStart(s) ==
        IF s # <<>> /\ Head(s) = Fence THEN TrimLeft(Tail(s)) ELSE s
      \* replace(/\s*```$/i, '')
      StripFenceEnd(s) ==
        IF s # <<>> /\ s[Len(s)] = Fence
        THEN TrimRight(SubSeq(s, 1, Len(s) - 1)) ELSE s
      \* match(/\{[\s\S]*\}/): from the first '{' to the last '}' after it
      JsonMatch(s) ==
        IF Opens(s) # {} /\ \E j \in Closes(s) : j > Least(Opens(s))
        THEN SubSeq(s, Least(Opens(s)), Greatest(Closes(s)))
        ELSE s
      \* replace(/^[^{]*/, '')
      RemoveBeforeFirstBrace(s) ==
        IF Opens(s) = {} THEN <<>> ELSE SubSeq(s, Least(Opens(s)), Len(s))
      \* replace(/[^}]*$/, '')
      RemoveAfterLastBrace(s) ==
        IF Closes(s) = {} THEN <<>> ELSE SubSeq(s, 1, Greatest(Closes(s)))
  IN  RemoveAfterLastBrace(
        RemoveBeforeFirstBrace(
          JsonMatch(
            StripFenceEnd(StripFenceStart(
              StripFenceEnd(StripFenceJsonStart(Trim(rawAnalysis))))))))

\* JSON.parse: an object is '{', members and white space, '}'
JsonParses(s) ==
  /\ Len(s) >= 2
  /\ s[1] = "{"
  /\ s[Len(s)] = "}"
  /\ \A i \in 2..(Len(s) - 1) : s[i] \in (DOMAIN FieldTable) \cup WhiteSpace

\* the parsed object: of a repeated name the last member counts
ParsedObject(s) ==
  [f \in FieldNames |->
     LET at == {i \in 2..(Len(s) - 1) :
                  s[i] \in DOMAIN FieldTable /\ FieldTable[s[i]].name = f}
         last == CHOOSE i \in at : \A k \in at : i >= k
     IN  IF at = {} THEN Missing ELSE Val(FieldTable[s[last]].type, "llm")]

validateAsIs(analysis, fileName) == analysis

\* validateAnalysisResponse (ai.js lines 14-74)
validateAnalysisResponse(analysis, fileName) ==
  LET listOf(f) ==
        IF analysis[f].type = "list" THEN analysis[f] ELSE Val("list", "default")
  IN  [f \in FieldNames |->
         CASE f = "summary" ->
                IF analysis[f].type = "string" THEN analysis[f]
                ELSE Val("string", "default")
           [] f = "cleanCode" ->
                IF analysis[f].type = "boolean" THEN analysis[f]
                ELSE Val("null", "default")
           [] OTHER -> listOf(f)]

\* ai.js lines 201-241: the analysis the handler makes up when JSON.parse
\* throws
FallbackAnalysis ==
  [f \in FieldNames |->
     CASE f = "summary" -> Val("string", "fallback")
       [] f = "cleanCode" -> Val("null", "fallback")
       [] OTHER -> Val("list", "fallback")]

\* ai.js lines 176-242
StructuredAnalysis(rawAnalysis, fileName) ==
  LET cleaned == CleanedResponse(rawAnalysis)
  IN  IF JsonParses(cleaned)
      THEN validateAnalysisResponse(ParsedObject(cleaned), fileName)
      ELSE FallbackAnalysis

\* line 156: the text starts with '{' and ends with '}' once trimmed
LooksLikeJson(rawAnalysis) ==
  LET t == Trim(rawAnalysis)
  IN  t # <<>> /\ Head(t) = "{" /\ t[Len(t)] = "}"

maxAttempts == 2

\* the body has no fileName
NoFileName == "undefined"

\* the texts the LLM answers with
LlmTexts ==
  { <<"{", "summary=s", "keyFunctions=l", "cleanCode=b", "issues=l",
      "improvements=l", "libraries=l", "}">>,
    <<"{", "summary=short", "cleanCode=s", "libraries=n", "}">>,
    <<"{", "summary=n", "keyFunctions=s", "}">>,
    <<"{", "}">>,
    <<" ", "{", "summary=s", " ", "issues=l", "}", " ">>,
    <<FenceJson, " ", "{", "summary=s", "cleanCode=b", "}", " ", Fence>>,
    <<Fence, "{", "summary=s", "}", Fence>>,
    <<"p", " ", "{", "summary=s", "issues=l", "}", " ", "p">>,
    <<"p", FenceJson, "{", "summary=s", "}", Fence, "p">>,
    <<"{", "summary=s", "}", "p", "{", "issues=l", "}">>,
    <<"{", "p", "}">>,
    <<"{", "summary=s">>,
    <<"}", "p", "{">>,
    <<"p", " ", "p">>,
    <<>> }

AiRespond(a, rawAnalysis) ==
  [a EXCEPT
     !.pc = "done", !.rawAnalysis = rawAnalysis,
     !.parseFailed = ~JsonParses(CleanedResponse(rawAnalysis)),
     !.response = [status |-> 200, message |-> "",
                   analysis |-> StructuredAnalysis(rawAnalysis, a.fileName)]]

AiUnchanged ==
  UNCHANGED <<activeAnalyses, clock, repositories, repoIdCounter, lastDelete,
              req, lastProgress, everCancelled, cancelledMidCrawl, pollSeen,
              github, otherVars, parseIn, parseOut>>

\* lines 77-143: the body is read and the prompt built
AiStart ==
  /\ ai.pc = "start"
  /\ ai' =
       IF ~ai.fileContent
       THEN [ai EXCEPT !.pc = "done",
                       !.response = [status |-> 400,
                                     message |-> "File content is required",
                                     analysis |-> NoAnalysis]]
       ELSE IF ~ai.keyConfigured
       THEN [ai EXCEPT !.pc = "done",
                       !.response = [status |-> 500,
                                     message |-> "Gemini API key not configured",
                                     analysis |-> NoAnalysis]]
       ELSE IF ai.fileName = NoFileName
       THEN \* line 101: fileName.split of undefined throws, caught at line 251
            [ai EXCEPT !.pc = "done",
                       !.response = [status |-> 500,
                                     message |-> "Failed to analyze code with AI",
                                     analysis |-> NoAnalysis]]
       ELSE [ai EXCEPT !.pc = "generate"]
  /\ AiUnchanged

\* lines 149-165: generateContent answers with a text
AiGenerated ==
  /\ ai.pc = "generate"
  /\ \E text \in LlmTexts :
       LET a == [ai EXCEPT !.calls = @ + 1, !.rawAnalysis = text]
       IN  ai' =
             IF LooksLikeJson(text) THEN AiRespond(a, text)
             ELSE IF a.attempts + 1 < maxAttempts
             THEN [a EXCEPT !.attempts = @ + 1, !.pc = "delay"]
             ELSE AiRespond([a EXCEPT !.attempts = @ + 1], text)
  /\ AiUnchanged

\* lines 166-172: generateContent (or response.text()) throws
AiThrown ==
  /\ ai.pc = "generate"
  /\ LET a == [ai EXCEPT !.calls = @ + 1, !.attempts = @ + 1, !.threw = TRUE]
     IN  ai' =
           IF a.attempts >= maxAttempts
           THEN [a EXCEPT !.pc = "done",
                          !.response = [status |-> 500,
                                        message |-> "Failed to analyze code with AI",
                                        analysis |-> NoAnalysis]]
           ELSE a
  /\ AiUnchanged

\* line 164: the delay before the second attempt is over
AiRetry ==
  /\ ai.pc = "delay"
  /\ ai' = [ai EXCEPT !.pc = "generate"]
  /\ AiUnchanged

(***************************************************************************)
(* retryWithBackoff(fn, maxRetries, baseDelay) (part_007 lines 10-29).     *)
(* An outcome of fn is "ok", or the error it throws: "404", "403", "500"   *)
(* (an axios error with that response status) or "timeout" (no response). *)
(***************************************************************************)
FnOutcomes == {"ok", "404", "403", "500", "timeout"}

RetriesAlways(outcome) == FALSE

\* lines 20-22: an error that is not retried
Permanent(outcome) == outcome \in {"404", "403"}

\* line 24: baseDelay * Math.pow(2, attempt - 1)
BackoffDelay(baseDelay, attempt) == baseDelay * (2 ^ (attempt - 1))

RetryUnchanged ==
  UNCHANGED <<activeAnalyses, clock, repositories, repoIdCounter, lastDelete,
              req, lastProgress, everCancelled, cancelledMidCrawl, pollSeen,
              github, ai, users, statistics, reg, initStats, statsReq, parseIn,
              parseOut>>

\* line 11: the loop is entered, or left at once when maxRetries < 1 (the
\* function then returns undefined)
RetryEnter ==
  /\ retry.pc = "start"
  /\ retry' =
       IF 1 <= retry.maxRetries
       THEN [retry EXCEPT !.pc = "call", !.attempt = 1]
       ELSE [retry EXCEPT !.pc = "returned", !.attempt = 1,
                          !.result = "undefined"]
  /\ RetryUnchanged

\* lines 12-26: fn() ends
RetryCall ==
  /\ retry.pc = "call"
  /\ \E outcome \in FnOutcomes :
       LET rt == [retry EXCEPT !.outcomes = Append(@, outcome)]
       IN  retry' =
             IF outcome = "ok"
             THEN [rt EXCEPT !.pc = "returned", !.result = outcome]
             ELSE IF rt.attempt = rt.maxRetries \/ Permanent(outcome)
             THEN [rt EXCEPT !.pc = "thrown", !.result = outcome]
             ELSE [rt EXCEPT
                     !.pc = "wait",
                     !.delays = Append(@, BackoffDelay(rt.baseDelay, rt.attempt))]
  /\ RetryUnchanged

\* lines 26, 11: the delay is over; attempt++
RetryWake ==
  /\ retry.pc = "wait"
  /\ retry' = [retry EXCEPT !.pc = "call", !.attempt = @ + 1]
  /\ RetryUnchanged

(***************************************************************************)
(* POST /register (auth.js lines 10-63) over the users collection          *)
(* (User model, Statistics.js lines 112-237).  The collection has a unique *)
(* index on email and none on username (README.md lines 154-168).          *)
(***************************************************************************)
\* auth.js lines 19-26: length 3..20, /^[a-zA-Z0-9_]+$/
UsernameTooShortOrLong(username) == Len(username) < 3 \/ Len(username) > 20

UsernameHasBadChar(username) ==
  \E i \in 1..Len(username) : username[i] \notin AlphaNum \cup {"_"}

findByEmail(us, email) == {i \in 1..Len(us) : us[i].email = email}

findByUsername(us, username) == {i \in 1..Len(us) : us[i].username = username}

RegisterEnd(r, status, message) ==
  reg' = [reg EXCEPT ![r].pc = "done", ![r].status = status,
                     ![r].message = message]

RegisterGoes(r, pc) == reg' = [reg EXCEPT ![r].pc = pc]

RegisterUnchanged ==
  UNCHANGED <<activeAnalyses, clock, repositories, repoIdCounter, lastDelete,
              req, lastProgress, everCancelled, cancelledMidCrawl, pollSeen,
              github, ai, retry, initStats, statsReq, parseIn, parseOut>>

\* lines 10-29: the body is validated and User.findByEmail called
RegisterStart(r) ==
  /\ reg[r].pc = "start"
  /\ IF reg[r].email = "" \/ reg[r].username = <<>>
     THEN RegisterEnd(r, 400, "Email, username, and password are required")
     ELSE IF UsernameTooShortOrLong(reg[r].username)
     THEN RegisterEnd(r, 400, "Username must be between 3 and 20 characters")
     ELSE IF UsernameHasBadChar(reg[r].username)
     THEN RegisterEnd(r, 400,
                      "Username can only contain letters, numbers, and underscores")
     ELSE RegisterGoes(r, "findByEmail")
  /\ UNCHANGED <<users, statistics>>
  /\ RegisterUnchanged

\* lines 29-35: User.findByEmail ends; User.findByUsername is called
RegisterEmailChecked(r) ==
  /\ reg[r].pc = "findByEmail"
  /\ IF findByEmail(users, reg[r].email) # {}
     THEN RegisterEnd(r, 400, "User with this email already exists")
     ELSE RegisterGoes(r, "findByUsername")
  /\ UNCHANGED <<users, statistics>>
  /\ RegisterUnchanged

\* lines 35-41: User.findByUsername ends; User.create is called
RegisterUsernameChecked(r) ==
  /\ reg[r].pc = "findByUsername"
  /\ IF findByUsername(users, reg[r].username) # {}
     THEN RegisterEnd(r, 400, "Username is already taken")
     ELSE RegisterGoes(r, "create")
  /\ UNCHANGED <<users, statistics>>
  /\ RegisterUnchanged

\* lines 41-44: User.create ends (insertOne throws on a duplicate email);
\* Statistics.incrementUsers is called
RegisterCreated(r) ==
  /\ reg[r].pc = "create"
  /\ IF findByEmail(users, reg[r].email) # {}
     THEN /\ RegisterEnd(r, 500, "Server error")
          /\ UNCHANGED users
     ELSE /\ RegisterGoes(r, "incrementUsers")
          /\ users' = Append(users, [id |-> DigitsOf(r), email |-> reg[r].email,
                                     username |-> reg[r].username])
  /\ UNCHANGED statistics
  /\ RegisterUnchanged

\* lines 44-57: Statistics.incrementUsers ends; the response is sent
RegisterCounted(r) ==
  /\ reg[r].pc = "incrementUsers"
  /\ statistics' = incrementUsers(statistics)
  /\ RegisterEnd(r, 201, "User created successfully")
  /\ UNCHANGED users
  /\ RegisterUnchanged

RegisterStep(r) ==
  \/ RegisterStart(r)
  \/ RegisterEmailChecked(r)
  \/ RegisterUsernameChecked(r)
  \/ RegisterCreated(r)
  \/ RegisterCounted(r)

(***************************************************************************)
(* parseGitHubUrl applied to the four forms of one repository URL          *)
(***************************************************************************)
ParseForm(suffix) ==
  /\ suffix \notin DOMAIN parseOut
  /\ parseOut' =
       [x \in (DOMAIN parseOut) \cup {suffix} |->
          IF x = suffix
          THEN parseGitHubUrl(UrlOf(parseIn.owner, parseIn.repo, suffix))
          ELSE parseOut[x]]
  /\ UNCHANGED <<activeAnalyses, clock, repositories, repoIdCounter, lastDelete,
                 req, lastProgress,
                 everCancelled, cancelledMidCrawl, pollSeen, github, ai, otherVars, parseIn>>

(***************************************************************************)
(* Specifications                                                          *)
(***************************************************************************)
AnalyzeStep(r) ==
  \/ AnalyzeStart(r)
  \/ AnalyzeValidated(r)
  \/ AnalyzeListing(r)
  \/ AnalyzeTotalCounts(r)
  \/ AnalyzeRealDepth(r)
  \/ AnalyzeReadme(r)
  \/ AnalyzePackageJson(r)
  \/ AnalyzeCreate(r)
  \/ AnalyzeIncrement(r)

\* Spec: two analyze requests, cancel requests of both users and the clock,
\* interleaved at the awaits.  The first request crawls the nested
\* repository, the second the plain one; GitHub answers the metadata lookup
\* with success or 404 and a listing request with 200 or an error.
MainAnswers ==
  [meta |-> {"ok", "404"}, listing |-> {200, 0}, flat |-> {TRUE}, db |-> {TRUE}]

Init ==
  /\ InitStores
  /\ InitNoParse
  /\ InitNoAi
  /\ InitNoRetry
  /\ InitNoAccounts
  /\ github = MainAnswers
  /\ \E u1 \in UserIds, u2 \in UserIds :
       req = [r \in Reqs |->
                IF r = 1 THEN NewRequest("analyze", u1, GoodUrl, Number(3), "nested")
                ELSE NewRequest("analyze", u2, GoodUrl, Number(1), "plain")]

Next ==
  \/ \E r \in Reqs : AnalyzeStep(r)
  \/ \E u \in UserIds : Cancel(u)
  \/ Tick

Spec == Init /\ [][Next]_vars

\* SpecCrawl: one analyze request alone, over every repository and depth
InitCrawl ==
  /\ InitStores
  /\ InitNoParse
  /\ InitNoAi
  /\ InitNoRetry
  /\ InitNoAccounts
  /\ github = AnyAnswer
  /\ \E d \in DepthInputs, g \in GitHubRepos :
       req = [r \in Reqs |->
                IF r = 1 THEN NewRequest("analyze", <<"1">>, GoodUrl, d, g)
                ELSE NoRequest]

NextCrawl == \E r \in Reqs : AnalyzeStep(r)

SpecCrawl == InitCrawl /\ [][NextCrawl]_vars

\* SpecHttp: one analyze or validate request over every URL, with progress
\* polls of both users
InitHttp ==
  /\ InitStores
  /\ InitNoParse
  /\ InitNoAi
  /\ InitNoRetry
  /\ InitNoAccounts
  /\ github = AnyAnswer
  /\ \E k \in {"analyze", "validate"}, url \in UrlInputs :
       req = [r \in Reqs |->
                IF r = 1 THEN NewRequest(k, <<"1">>, url, Number(2), "plain")
                ELSE NoRequest]

NextHttp ==
  \/ \E r \in Reqs : AnalyzeStep(r)
  \/ \E r \in Reqs : ValidateStart(r)
  \/ \E r \in Reqs : ValidateAnswered(r)
  \/ \E u \in UserIds : Poll(u)

SpecHttp == InitHttp /\ [][NextHttp]_vars

\* SpecOutcomes: two analyze requests of two users and their cancel requests;
\* a URL is well formed or not, the metadata lookup has any answer, the root
\* listing answers 200 or 404
BadUrl == UrlOf(<<"o">>, <<"r", "?", "q">>, <<>>)

OutcomeAnswers ==
  [meta |-> MetaAnswers, listing |-> {200, 404}, flat |-> {TRUE}, db |-> {TRUE}]

InitOutcomes ==
  /\ InitStores
  /\ InitNoParse
  /\ InitNoAi
  /\ InitNoRetry
  /\ InitNoAccounts
  /\ github = OutcomeAnswers
  /\ \E url1 \in {GoodUrl, BadUrl}, url2 \in {GoodUrl, BadUrl} :
       req = [r \in Reqs |->
                IF r = 1 THEN NewRequest("analyze", <<"1">>, url1, Number(1), "plain")
                ELSE NewRequest("analyze", <<"2">>, url2, Number(1), "plain")]

NextOutcomes ==
  \/ \E r \in Reqs : AnalyzeStep(r)
  \/ \E u \in {<<"1">>, <<"2">>} : Cancel(u)

SpecOutcomes == InitOutcomes /\ [][NextOutcomes]_vars

\* SpecDelete: two users each analyse a repository and send delete requests
\* for ids that exist, of either owner, and for ids that do not
DeleteUsers == {<<"1">>, <<"2">>}

DeleteIds == 1..3

DeleteAnswers ==
  [meta |-> {"ok"}, listing |-> {200}, flat |-> {TRUE}, db |-> BOOLEAN]

InitDelete ==
  /\ InitStores
  /\ InitNoParse
  /\ InitNoAi
  /\ InitNoRetry
  /\ InitNoAccounts
  /\ github = DeleteAnswers
  /\ req = [r \in Reqs |->
              IF r = 1
              THEN NewRequest("analyze", <<"1">>, GoodUrl, Number(1), "plain")
              ELSE NewRequest("analyze", <<"2">>, GoodUrl, Number(1), "plain")]

NextDelete ==
  \/ \E r \in Reqs : AnalyzeStep(r)
  \/ \E u \in DeleteUsers, id \in DeleteIds : Delete(u, id)

SpecDelete == InitDelete /\ [][NextDelete]_vars

\* SpecAi: one POST /analyze-code request, with every text of the LLM
FileNames == {"README.md", "a.js", "b.json"}

InitAi ==
  /\ InitStores
  /\ InitNoParse
  /\ github = AnyAnswer
  /\ req = [r \in Reqs |-> NoRequest]
  /\ InitNoRetry
  /\ InitNoAccounts
  /\ \E content \in BOOLEAN, key \in BOOLEAN, name \in FileNames \cup {NoFileName} :
       ai = [NoAi EXCEPT !.pc = "start", !.fileContent = content,
                         !.keyConfigured = key, !.fileName = name]

NextAi == AiStart \/ AiGenerated \/ AiThrown \/ AiRetry

SpecAi == InitAi /\ [][NextAi]_vars

\* SpecRegister: two register requests, interleaved at their awaits
EmailInputs == {"", "a@x.io", "b@x.io"}

UsernameInputs ==
  {<<>>, <<"a", "b">>, <<"a", "n", "n">>, <<"b", "_", "9">>, <<"a", "-", "b">>}

NewRegister(email, username) ==
  [NoRegister EXCEPT !.pc = "start", !.email = email, !.username = username]

InitRegister ==
  /\ InitStores
  /\ InitNoParse
  /\ InitNoAi
  /\ InitNoRetry
  /\ github = AnyAnswer
  /\ req = [r \in Reqs |-> NoRequest]
  /\ users = <<>>
  /\ statistics = <<>>
  /\ initStats = NoInitStats
  /\ statsReq = NoStatsRequest
  /\ reg \in [Reqs -> {NewRegister(e, u) : e \in EmailInputs, u \in UsernameInputs}]

NextRegister == \E r \in Reqs : RegisterStep(r)

SpecRegister == InitRegister /\ [][NextRegister]_vars

\* SpecRetry: one call of retryWithBackoff, over every outcome of fn
MaxRetriesInput == 4

BaseDelays == {0, 1, 1000}

InitRetry ==
  /\ InitStores
  /\ InitNoParse
  /\ InitNoAi
  /\ InitNoAccounts
  /\ github = AnyAnswer
  /\ req = [r \in Reqs |-> NoRequest]
  /\ \E n \in 0..MaxRetriesInput, d \in BaseDelays :
       retry = [NoRetry EXCEPT !.pc = "start", !.maxRetries = n, !.baseDelay = d]

NextRetry == RetryEnter \/ RetryCall \/ RetryWake

SpecRetry == InitRetry /\ [][NextRetry]_vars

\* SpecParse: parseGitHubUrl on the four forms of each owner and repo
InitParse ==
  /\ InitStores
  /\ InitNoAi
  /\ InitNoRetry
  /\ InitNoAccounts
  /\ github = AnyAnswer
  /\ req = [r \in Reqs |-> NoRequest]
  /\ parseIn \in [owner : OwnerInputs, repo : RepoInputs]
  /\ parseOut = <<>>

NextParse == \E x \in UrlSuffixes : ParseForm(x)

SpecParse == InitParse /\ [][NextParse]_vars

(***************************************************************************)
(* Claims                                                                  *)
(***************************************************************************)
\* the requests that have been sent
Sent == {r \in Reqs : req[r].pc # "off"}

\* the stretches of POST /analyze that follow the crawl
AfterCrawlPcs ==
  {"totalCounts", "realDepth", "readme", "packageJson", "create",
   "incrementAnalyses"}

\* the stretches that follow calculateTotalCounts
AfterTotalsPcs == AfterCrawlPcs \ {"totalCounts"}

\* every node of the tree lies at a level of at most d (the root at level 0,
\* a child one below its parent), carries a depth of at most d, and a folder
\* at level d is truncated and has no children
RECURSIVE TreeWithinDepth(_, _, _)
TreeWithinDepth(node, level, d) ==
  /\ level <= d
  /\ node.depth <= d
  /\ (node.type = "folder" /\ level = d) =>
        (node.truncated /\ node.children = <<>>)
  /\ \A i \in 1..Len(node.children) :
        TreeWithinDepth(node.children[i], level + 1, d)

RECURSIVE HasTruncatedFolderAt(_, _, _)
HasTruncatedFolderAt(node, level, d) ==
  \/ node.type = "folder" /\ level = d /\ node.truncated
  \/ \E i \in 1..Len(node.children) :
       HasTruncatedFolderAt(node.children[i], level + 1, d)

\* C1: a crawl with depth bound d issues no listing request for a folder at
\* depth d or more, its tree has no node deeper than d, and every folder at
\* depth d is truncated and has no children.
C1_DepthBound ==
  \A r \in Sent :
    /\ \A c \in req[r].calls : c.depth < req[r].depth
    /\ TreeWithinDepth(req[r].fileTree, 0, req[r].depth)

\* a crawl has ended with a tree that holds a truncated folder at depth d
C1_Witness ==
  \E r \in Sent :
    /\ req[r].pc \in AfterCrawlPcs
    /\ HasTruncatedFolderAt(req[r].fileTree, 0, req[r].depth)

\* C2: no record is written for an analysis whose user's cancel request was
\* handled while its crawl was in progress.
C2_CancelMidCrawlWritesNothing ==
  \A i \in 1..Len(repositories) :
    repositories[i].request \notin cancelledMidCrawl

\* C3: a crawl aborted at a check point because the cancelled flag was set
\* ends with 499, 'Analysis cancelled by user', cancelled: true.
C3_AbortIsCancelledOutcome ==
  \A r \in Sent :
    (req[r].pc = "done" /\ Includes(req[r].error.message, MsgCancelled)) =>
      req[r].response = Response(499, MsgCancelled, TRUE)

\* C4: the progress held for an analysisId never decreases, and it is 100
\* when a successful analysis removes its entry.
C4_ProgressMonotone ==
  [][ /\ \A id \in MapIds(activeAnalyses') :
           id \in DOMAIN lastProgress =>
             activeAnalyses'[MapIndex(activeAnalyses', id)].progress
               >= lastProgress[id]
      /\ \A r \in Sent :
           (req[r].pc # "done" /\ req'[r].pc = "done"
              /\ req'[r].response.status = 200) =>
             lastProgress[req[r].analysisId] = 100 ]_vars

\* C5: when an analyze request has sent its response the store holds no
\* entry for its analysisId, and a step of a request removes no entry but
\* that request's own.
C5_OwnEntryRemovedOnly ==
  [][ \A r \in Sent :
        req[r].pc # req'[r].pc =>
          /\ (MapIds(activeAnalyses) \ MapIds(activeAnalyses'))
                \subseteq {req'[r].analysisId}
          /\ req'[r].pc = "done" =>
                ~MapHas(activeAnalyses', req'[r].analysisId) ]_vars

\* C6: an analysisId that has held cancelled = true never again has an entry
\* whose flag is false or absent.
C6_CancelledIsOneWay ==
  \A id \in everCancelled :
    MapHas(activeAnalyses, id) => IsCancelled(activeAnalyses, id)

\* C7: when the flattened listing succeeds, totalFiles and totalFolders are at
\* least the files and the non-root folders of the crawled tree.
C7_TotalsCoverTree ==
  \A r \in Sent :
    (req[r].pc \in AfterTotalsPcs /\ req[r].totalsSource = "listing") =>
      /\ req[r].totalCounts.files >= countAnalyzed(req[r].fileTree, TRUE).files
      /\ req[r].totalCounts.folders >= countAnalyzed(req[r].fileTree, TRUE).folders

\* a name matches the denylist as the claim reads it: one of the exact
\* names, or a name that ends with what follows the '*' of a pattern
MatchesDenylist(name) ==
  \/ name \in ExactSkipPatterns
  \/ \E g \in GlobSkipPatterns : EndsWith(name, Tail(g))

RECURSIVE NoDenylistedNode(_)
NoDenylistedNode(node) ==
  \A i \in 1..Len(node.children) :
    /\ ~MatchesDenylist(LastSegment(node.children[i].path))
    /\ ~MatchesDenylist(node.children[i].name)
    /\ NoDenylistedNode(node.children[i])

\* the entries of a repository of one type whose name is not denylisted
CountableEntries(ghRepo, type) ==
  {i \in 1..Len(GhRepo(ghRepo)) :
     /\ GhRepo(ghRepo)[i].type = type
     /\ ~MatchesDenylist(GhRepo(ghRepo)[i].segs[Len(GhRepo(ghRepo)[i].segs)])}

\* C8: an entry whose name matches a denylist pattern is no node of the
\* crawled tree, at any depth, and is counted in neither total.
C8_DenylistedNeverAppears ==
  \A r \in Sent :
    /\ NoDenylistedNode(req[r].fileTree)
    /\ req[r].pc \in AfterTotalsPcs =>
         /\ req[r].totalCounts.files <=
              Cardinality(CountableEntries(req[r].ghRepo, "file"))
         /\ req[r].totalCounts.folders <=
              Cardinality(CountableEntries(req[r].ghRepo, "dir"))

\* the totals of a repository that holds denylisted entries, at the root and
\* below it, have been computed after a crawl that listed two levels
C8_Witness ==
  \E r \in Sent :
    /\ req[r].pc \in AfterTotalsPcs
    /\ req[r].ghRepo = "nested"
    /\ req[r].totalsSource = "listing"
    /\ Cardinality(req[r].calls) >= 2

HasDisallowedChar(seg) == \E i \in 1..Len(seg) : seg[i] \in {" ", "?"}

\* the malformed URLs: no repo segment, an empty owner or repo, or a
\* disallowed character in the owner or the repo
MalformedUrls ==
  {UrlWithoutRepo(o) : o \in OwnerInputs} \cup
  {UrlOf(o, rp, x) : o \in {<<>>} \cup {y \in OwnerInputs : HasDisallowedChar(y)},
                     rp \in RepoInputs, x \in UrlSuffixes} \cup
  {UrlOf(o, rp, x) : o \in OwnerInputs,
                     rp \in {<<>>} \cup {y \in RepoInputs : HasDisallowedChar(y)},
                     x \in UrlSuffixes}

\* C10: for a malformed URL parseGitHubUrl returns nothing, the handler makes
\* no upstream call and creates no entry, and it answers 400 'Invalid GitHub
\* URL'.
C10_MalformedUrlRejected ==
  \A r \in Sent :
    req[r].repoUrl \in MalformedUrls =>
      /\ parseGitHubUrl(req[r].repoUrl) = Null
      /\ req[r].upstream = 0
      /\ activeAnalyses = <<>>
      /\ req[r].pc \in {"start", "done"}
      /\ req[r].pc = "done" =>
           req[r].response = Response(400, <<"Invalid GitHub URL">>, FALSE)

\* C11: when the validation of an analyze request fails (the lookup answers
\* 404 or 403, size 0, no default branch, or errors), the request ends with
\* no listing call issued, no entry created and no record written.
C11_ValidationFailureStopsAll ==
  \A r \in Sent :
    (req[r].kind = "analyze" /\ req[r].metaAnswer \notin {"none", "ok"}) =>
      /\ req[r].pc = "done"
      /\ req[r].calls = {}
      /\ req[r].upstream = 1
      /\ req[r].analysisId = <<>>
      /\ activeAnalyses = <<>>
      /\ \A i \in 1..Len(repositories) : repositories[i].request # r

C11_Witness ==
  \E r \in Sent :
    /\ req[r].kind = "analyze"
    /\ req[r].metaAnswer = "empty"
    /\ req[r].pc = "done"
    /\ req[r].response.status = 404

\* the terminal outcome of a finished analyze request, by its cause
Outcome(r) ==
  IF req[r].pc # "done" THEN "none"
  ELSE IF req[r].repoUrl # <<>> /\ ~parseGitHubUrl(req[r].repoUrl).ok
  THEN "ParseError"
  ELSE IF req[r].metaAnswer = "404" THEN "NotFound"
  ELSE IF req[r].metaAnswer = "403" THEN "AccessDenied"
  ELSE IF req[r].metaAnswer = "empty" THEN "Empty"
  ELSE IF req[r].metaAnswer = "nobranch" THEN "NoDefaultBranch"
  ELSE IF Includes(req[r].error.message, MsgCancelled)
          \/ req[r].response.message = MsgCancelled
  THEN "Cancelled"
  ELSE "other"

SixOutcomes ==
  {"ParseError", "NotFound", "AccessDenied", "Empty", "NoDefaultBranch",
   "Cancelled"}

\* C12: two analyze requests that end with different outcomes among
\* ParseError, NotFound, AccessDenied, Empty, NoDefaultBranch and Cancelled
\* are answered with different HTTP statuses.
C12_OutcomesHaveDistinctStatus ==
  \A r1 \in Sent, r2 \in Sent :
    (/\ Outcome(r1) \in SixOutcomes
     /\ Outcome(r2) \in SixOutcomes
     /\ Outcome(r1) # Outcome(r2)) =>
      req[r1].response.status # req[r2].response.status

\* C13: whatever maxDepth the client sends (an integer, negative, zero,
\* huge, no number, or nothing), the depth bound the handler computes and
\* passes to the crawler is an integer in 1..20.
C13_DepthBoundInRange ==
  \A r \in Sent :
    (req[r].kind = "analyze" /\ req[r].pc # "start") =>
      req[r].depth \in 1..20

C13_Witness ==
  \E r \in Sent :
    /\ req[r].maxDepth = Number(0 - 1)
    /\ req[r].pc = "listing"
    /\ req[r].depth = 1

\* the listing requests of request r that failed: answered 404, 403, another
\* 4xx, or by axios throwing (5xx, timeout, no connection)
FailedListings(r) == {a \in req[r].answers : a.status # 200}

HasRecord(r) == \E i \in 1..Len(repositories) : repositories[i].request = r

\* C14: a failure of the listing of a non-root directory does not fail the
\* analysis: the crawl of that request still returns a tree.
C14_NonRootFailureContained ==
  \A r \in Sent :
    (\E a \in FailedListings(r) : a.depth >= 1) =>
      /\ ~Includes(req[r].error.message, MsgApiPrefix)
      /\ req[r].pc = "done" => req[r].fileTree # NoTree

\* C15: a failure of the listing of the repository root aborts the analysis
\* with an error outcome, and no record is written for it.
C15_RootFailureAborts ==
  \A r \in Sent :
    (\E a \in FailedListings(r) : a.depth = 0) =>
      /\ req[r].pc = "done" => req[r].response.status >= 500
      /\ ~HasRecord(r)

\* C16: an analyze request answered with the generic 500 has persisted
\* nothing: no record of that attempt is in the store.
C16_GenericFailurePersistsNothing ==
  \A r \in Sent :
    (req[r].kind = "analyze" /\ req[r].pc = "done"
       /\ req[r].response = Response(500, <<"Failed to analyze repository">>, FALSE)) =>
      ~HasRecord(r)

\* C17: a delete request of one user for a record of another user leaves
\* the store as it is and gets the answer a request for an id that names no
\* record gets: 404 'Repository not found' (the database call succeeding).
C17_ForeignDeleteLooksMissing ==
  [][ \A u \in DeleteUsers, id \in DeleteIds :
        (/\ Delete(u, id)
         /\ FoundBy(repositories, u, id) = "foreign"
         /\ lastDelete'.response.status # 500) =>
          /\ repositories' = repositories
          /\ lastDelete'.response = Response(404, <<"Repository not found">>, FALSE)
          /\ lastDelete'.response =
                DeleteResponse(deleteById(repositories, u, repoIdCounter).deleted) ]_vars

C17_Witness ==
  /\ lastDelete.found = "foreign"
  /\ lastDelete.response.status = 404
  /\ repositories # <<>>

\* the nodes of a type in a tree, the root included
RECURSIVE NodesOfType(_, _)
NodesOfType(node, type) ==
  LET F[n \in 0..Len(node.children)] ==
        IF n = 0 THEN 0
        ELSE F[n - 1] + NodesOfType(node.children[n], type)
  IN  (IF node.type = type THEN 1 ELSE 0) + F[Len(node.children)]

\* the stretches that follow calculateRealRepositoryDepth
AfterDepthPcs == AfterTotalsPcs \ {"realDepth"}

\* C18: when calculateTotalCounts falls back because its listing failed, the
\* analysis goes on, the totals are the file nodes and the non-root folder
\* nodes of the crawled tree, and totalDepth is the depth the crawl reached.
C18_FallbackTotalsAreTreeCounts ==
  \A r \in Sent :
    (req[r].pc \in AfterDepthPcs /\ req[r].totalsSource = "fallback") =>
      /\ req[r].totalCounts.files = NodesOfType(req[r].fileTree, "file")
      /\ req[r].totalCounts.folders = NodesOfType(req[r].fileTree, "folder") - 1
      /\ req[r].realRepositoryDepth = req[r].actualDepthReached

\* the six fields of an analysis object have the types of the schema
HasSchema(analysis) ==
  /\ analysis.summary.type = "string"
  /\ analysis.keyFunctions.type = "list"
  /\ analysis.cleanCode.type \in {"boolean", "null"}
  /\ analysis.issues.type = "list"
  /\ analysis.improvements.type = "list"
  /\ analysis.libraries.type = "list"

\* C19: whatever texts the LLM returns without throwing, a request with
\* fileContent and fileName is answered with success and an analysis that
\* has the six fields of the schema; no parse error is shown, and the LLM
\* is called at most 2 times.
C19_AnalysisAlwaysHasSchema ==
  /\ ai.calls <= 2
  /\ (/\ ai.pc = "done"
      /\ ai.fileContent
      /\ ai.fileName # NoFileName
      /\ ai.keyConfigured
      /\ ~ai.threw) =>
       /\ ai.response.status = 200
       /\ ai.response.message = ""
       /\ HasSchema(ai.response.analysis)

C19_Witness ==
  /\ ai.pc = "done"
  /\ ~ai.threw
  /\ ai.calls = 2
  /\ ai.parseFailed
  /\ ai.response.status = 200

\* the users whose analyze requests created the entry with this id
StartedBy(id) == {req[r].user : r \in {x \in Sent : req[x].analysisId = id}}

\* the entries of the store that were started by others than userId only
EntriesOfOthers(m, userId) ==
  {i \in 1..Len(m) : StartedBy(m[i].id) # {} /\ userId \notin StartedBy(m[i].id)}

\* C20: a cancel request, a progress poll or a failing analyze request of a
\* user never flags, reads or deletes an entry of an analysis that another
\* user started, also when one user id is a prefix of the other.
C20_EntriesIsolatedPerUser ==
  [][ /\ \A u \in UserIds :
           Cancel(u) =>
             \A i \in EntriesOfOthers(activeAnalyses, u) :
               activeAnalyses'[i] = activeAnalyses[i]
      /\ \A u \in UserIds :
           FirstWithPrefix(activeAnalyses, u)
             \cap EntriesOfOthers(activeAnalyses, u) = {}
      /\ \A r \in Sent :
           (req[r].pc # "done" /\ req'[r].pc = "done"
              /\ req'[r].response.status >= 400) =>
             \A i \in EntriesOfOthers(activeAnalyses, req[r].user) :
               MapHas(activeAnalyses', activeAnalyses[i].id) ]_vars

\* C29: for every integer maxDepth n the client sends, the depth bound of
\* the crawl is n clamped to [1, 20]: 1 for n < 1 (n = 0 included), n for
\* 1 <= n <= 20, 20 for n > 20.
C29_DepthIsClampedInput ==
  \A r \in Sent :
    (/\ req[r].kind = "analyze"
     /\ req[r].pc = "listing"
     /\ req[r].maxDepth.kind = "number") =>
      req[r].depth = (IF req[r].maxDepth.n < 1 THEN 1
                      ELSE IF req[r].maxDepth.n > 20 THEN 20
                      ELSE req[r].maxDepth.n)

\* the requests whose crawl attempt is under way: the id is created and the
\* response is not yet sent
Crawling == {r \in Sent : req[r].analysisId # <<>> /\ req[r].pc # "done"}

\* C30: two crawl attempts that are under way at the same time have
\* different analysisIds, also when they are requests of one user that create
\* their ids at the same clock value.
C30_AnalysisIdsDistinct ==
  \A r1 \in Crawling, r2 \in Crawling :
    r1 # r2 => req[r1].analysisId # req[r2].analysisId

\* C23: when an analyze request writes its record, the entry of its analysis
\* does not have cancelled = true: a cancel handled before the write, also
\* during the fetches that follow the traversal, keeps the record unwritten.
C23_NoWriteWhenCancelled ==
  [][ \A r \in Sent :
        (req[r].pc = "create" /\ Len(repositories') > Len(repositories)
           /\ repositories'[Len(repositories')].request = r) =>
          ~IsCancelled(activeAnalyses, req[r].analysisId) ]_vars

\* the entry of request r is in the store with cancelled = true
FlagSet(r) ==
  \E i \in 1..Len(activeAnalyses) :
    /\ activeAnalyses[i].id = req[r].analysisId
    /\ activeAnalyses[i].cancelled = "true"

\* C24: while the entry of a crawl is in the store with cancelled = true, the
\* crawler starts no new listing call for that crawl; the call in flight
\* when the flag was set completes and the crawl ends with it.
C24_NoNewListingOnceCancelled ==
  [][ \A r \in Sent :
        (req[r].pc = "listing" /\ FlagSet(r) /\ req'[r] # req[r]) =>
          /\ req'[r].calls = req[r].calls
          /\ req'[r].pc = "done" ]_vars

C24_Witness ==
  \E r \in Sent :
    /\ r \in cancelledMidCrawl
    /\ req[r].ghRepo = "nested"
    /\ req[r].pc = "done"
    /\ Includes(req[r].error.message, MsgCancelled)
    /\ Cardinality(req[r].calls) = 1

\* the nodes of a tree that carry the given path
RECURSIVE NodesAtPath(_, _)
NodesAtPath(node, path) ==
  (IF node.path = path THEN {node} ELSE {})
    \cup UNION {NodesAtPath(node.children[i], path) : i \in 1..Len(node.children)}

\* C26: when the listing of a non-root directory is answered 404 or 403, the
\* node of that directory in the tree the analysis returns and stores has an
\* error annotation and no children, and the crawl goes on to its siblings.
C26_FailedDirectoryIsAnnotated ==
  \A r \in Sent :
    req[r].pc \in AfterCrawlPcs =>
      \A a \in req[r].answers :
        (a.depth >= 1 /\ a.status \in {404, 403}) =>
          /\ NodesAtPath(req[r].fileTree, a.path) # {}
          /\ \A n \in NodesAtPath(req[r].fileTree, a.path) :
               n.error # "" /\ n.children = <<>>

\* some folder of the tree was cut off by the depth bound
RECURSIVE AnyTruncated(_)
AnyTruncated(node) ==
  \/ node.truncated
  \/ \E i \in 1..Len(node.children) : AnyTruncated(node.children[i])

\* C27: for a repository crawled with no truncation and no upstream error,
\* totalFiles is the number of file nodes and totalFolders the number of
\* non-root folder nodes of the crawled tree, also when the repository has
\* denylisted directories with content below them.
C27_TotalsEqualTreeCounts ==
  \A r \in Sent :
    (/\ req[r].pc \in AfterTotalsPcs
     /\ req[r].totalsSource = "listing"
     /\ ~AnyTruncated(req[r].fileTree)
     /\ \A a \in req[r].answers : a.status = 200) =>
      /\ req[r].totalCounts.files = NodesOfType(req[r].fileTree, "file")
      /\ req[r].totalCounts.folders = NodesOfType(req[r].fileTree, "folder") - 1

\* C28: analyze and validate tell rate limiting and network failure from the
\* other causes: a metadata lookup answered 403 with a rate-limit message
\* gives the rate-limit response 429, and one that times out or cannot
\* connect gives the network response 503.
C28_RateLimitAndNetworkDistinguished ==
  \A r \in Sent :
    req[r].pc = "done" =>
      /\ req[r].metaAnswer = "403rate" => req[r].response.status = 429
      /\ req[r].metaAnswer = "throw" => req[r].response.status = 503

\* the calls of fn made so far
RetryCalls == Len(retry.outcomes)

\* C25: retryWithBackoff with maxRetries >= 1 calls fn at most maxRetries
\* times; it returns the first success without a further call; after a
\* failure with status 404 or 403 it rethrows at once; otherwise it waits
\* baseDelay * 2^(k-1) after the k-th failed attempt, and after the
\* maxRetries-th failure it rethrows that last error.
C25_RetryWithBackoff ==
  (retry.pc # "off" /\ retry.maxRetries >= 1) =>
    /\ RetryCalls <= retry.maxRetries
    /\ \A k \in 1..(RetryCalls - 1) :
         retry.outcomes[k] \notin {"ok", "404", "403"}
    /\ \A k \in 1..Len(retry.delays) :
         retry.delays[k] = retry.baseDelay * (2 ^ (k - 1))
    /\ Len(retry.delays) =
         (IF retry.pc \in {"wait", "call"} \/ RetryCalls = 0 THEN RetryCalls
          ELSE RetryCalls - 1)
    /\ RetryCalls >= 1 =>
         LET last == retry.outcomes[RetryCalls]
         IN  /\ last = "ok" => (retry.pc = "returned" /\ retry.result = "ok")
             /\ last \in {"404", "403"} => (retry.pc = "thrown" /\ retry.result = last)
             /\ (last # "ok" /\ RetryCalls = retry.maxRetries) =>
                  (retry.pc = "thrown" /\ retry.result = last)
             /\ retry.pc = "returned" => last = "ok"
             /\ retry.pc = "thrown" =>
                  (last \in {"404", "403"} \/ RetryCalls = retry.maxRetries)

C25_Witness ==
  /\ retry.pc = "thrown"
  /\ retry.maxRetries = 3
  /\ retry.baseDelay = 1000
  /\ retry.outcomes = <<"500", "timeout", "500">>
  /\ retry.delays = <<1000, 2000>>

\* C21: after any sequence of register requests, two requests with the same
\* username whose handlers interleave included, no two stored users have
\* the same username.
C21_UsernamesUnique ==
  \A i \in 1..Len(users), j \in 1..Len(users) :
    i # j => users[i].username # users[j].username

(***************************************************************************)
(* The operations that read or rewrite the statistics besides POST         *)
(* /register and POST /analyze: GET /api/stats (README.md lines 226-258),  *)
(* DELETE /delete-account (auth.js lines 141-199) and the initializeStats  *)
(* script (initializeStats.js lines 7-63).  Statistics.getStats            *)
(* (Statistics.js lines 4-33) is a findOne and, when it finds nothing, an  *)
(* insertOne of zeros: two awaits, two steps.                              *)
(***************************************************************************)
StatsUnchanged ==
  UNCHANGED <<activeAnalyses, clock, repositories, repoIdCounter, lastDelete,
              req, lastProgress, everCancelled, cancelledMidCrawl, pollSeen,
              github, ai, retry, users, reg, parseIn, parseOut>>

\* Statistics.js line 20 in GET /api/stats: findOne; the document found is
\* answered (README.md lines 240-247), a failure is the 500 of lines 248-257
StatsRequestFind ==
  /\ statsReq.pc = "start"
  /\ \E ok \in github.db :
       statsReq' =
         IF ~ok THEN [statsReq EXCEPT !.pc = "done", !.status = 500]
         ELSE IF statistics = <<>> THEN [statsReq EXCEPT !.pc = "insertOne"]
         ELSE [pc |-> "done", status |-> 200,
               totalUsers |-> statistics[1].totalUsers,
               totalAnalyses |-> statistics[1].totalAnalyses]
  /\ UNCHANGED <<statistics, initStats>>
  /\ StatsUnchanged

\* Statistics.js lines 21-28 in GET /api/stats: insertOne of the zeros
StatsRequestInsert ==
  /\ statsReq.pc = "insertOne"
  /\ statistics' = Append(statistics, StatsDoc(0, 0))
  /\ statsReq' = [pc |-> "done", status |-> 200, totalUsers |-> 0, totalAnalyses |-> 0]
  /\ UNCHANGED initStats
  /\ StatsUnchanged

\* auth.js lines 141-199: the records of the user are deleted one by one and
\* then the user; the statistics are neither read nor written
DeleteAccount(u) ==
  /\ repositories' = SelectSeq(repositories, LAMBDA rec : rec.user_id # u)
  /\ users' = SelectSeq(users, LAMBDA usr : usr.id # u)
  /\ UNCHANGED <<activeAnalyses, clock, repoIdCounter, lastDelete, req,
                 lastProgress, everCancelled, cancelledMidCrawl, pollSeen, github,
                 ai, retry, statistics, reg, initStats, statsReq, parseIn,
                 parseOut>>

\* initializeStats.js line 14: User.countDocuments (Statistics.js lines
\* 325-338)
InitStatsCountUsers ==
  /\ initStats.pc = "countUsers"
  /\ initStats' = [initStats EXCEPT !.pc = "countRepositories", !.totalUsers = Len(users)]
  /\ UNCHANGED <<statistics, statsReq>>
  /\ StatsUnchanged

\* line 15: Repository.countDocuments
InitStatsCountRepositories ==
  /\ initStats.pc = "countRepositories"
  /\ initStats' = [initStats EXCEPT !.pc = "getStats",
                                    !.totalRepositories = Len(repositories)]
  /\ UNCHANGED <<statistics, statsReq>>
  /\ StatsUnchanged

\* the test of line 23 on the document getStats returned
BothZero(stats) == stats.totalUsers = 0 /\ stats.totalAnalyses = 0

\* lines 21-23: the findOne of getStats, and the test when a document is found
InitStatsFind ==
  /\ initStats.pc = "getStats"
  /\ initStats' =
       [initStats EXCEPT !.pc =
          IF statistics = <<>> THEN "insertOne"
          ELSE IF BothZero(statistics[1]) THEN "updateOne"
          ELSE "done"]
  /\ UNCHANGED <<statistics, statsReq>>
  /\ StatsUnchanged

\* lines 21-23: the insertOne of getStats; the zeros it returns pass the test
InitStatsInsert ==
  /\ initStats.pc = "insertOne"
  /\ statistics' = Append(statistics, StatsDoc(0, 0))
  /\ initStats' = [initStats EXCEPT !.pc = "updateOne"]
  /\ UNCHANGED statsReq
  /\ StatsUnchanged

\* lines 35-45: updateOne({}, {$set: {totalUsers, totalAnalyses}}, {upsert})
\* with the counts of lines 14-15
InitStatsUpdate ==
  /\ initStats.pc = "updateOne"
  /\ statistics' =
       IF statistics = <<>>
       THEN <<StatsDoc(initStats.totalUsers, initStats.totalRepositories)>>
       ELSE [statistics EXCEPT
               ![1] = StatsDoc(initStats.totalUsers, initStats.totalRepositories)]
  /\ initStats' = [initStats EXCEPT !.pc = "done"]
  /\ UNCHANGED statsReq
  /\ StatsUnchanged

InitStatsStep ==
  \/ InitStatsCountUsers
  \/ InitStatsCountRepositories
  \/ InitStatsFind
  \/ InitStatsInsert
  \/ InitStatsUpdate

\* SpecStats: one register, one analysis, one GET /api/stats, one run of
\* initializeStats, and the two deletions at any time
StatsAnswers ==
  [meta |-> {"ok"}, listing |-> {200}, flat |-> {TRUE}, db |-> {TRUE}]

InitStatsSpec ==
  /\ InitStores
  /\ InitNoParse
  /\ InitNoAi
  /\ InitNoRetry
  /\ github = StatsAnswers
  /\ req = [r \in Reqs |->
              IF r = 1
              THEN NewRequest("analyze", <<"1">>, GoodUrl, Number(1), "plain")
              ELSE NoRequest]
  /\ users = <<>>
  /\ statistics = <<>>
  /\ reg = [r \in Reqs |->
              IF r = 1 THEN NewRegister("a@x.io", <<"a", "n", "n">>) ELSE NoRegister]
  /\ initStats = [NoInitStats EXCEPT !.pc = "countUsers"]
  /\ statsReq = [NoStatsRequest EXCEPT !.pc = "start"]

NextStats ==
  \/ \E r \in Reqs : RegisterStep(r)
  \/ \E r \in Reqs : AnalyzeStep(r)
  \/ \E u \in DeleteUsers, id \in DeleteIds : Delete(u, id)
  \/ \E u \in DeleteUsers : DeleteAccount(u)
  \/ StatsRequestFind
  \/ StatsRequestInsert
  \/ InitStatsStep

SpecStats == InitStatsSpec /\ [][NextStats]_vars

\* C22: over any sequence of register, analyze, delete-repository,
\* delete-account, getStats and initializeStats operations, the values
\* totalUsers and totalAnalyses of the statistics document never decrease.
C22_StatisticsNeverDecrease ==
  [][statistics # <<>> =>
       /\ statistics' # <<>>
       /\ statistics'[1].totalUsers >= statistics[1].totalUsers
       /\ statistics'[1].totalAnalyses >= statistics[1].totalAnalyses]_vars

====
